---- MODULE Spec2Model ----
(***************************************************************************)
(* Model of the channel subscription lifecycle manager of Moot             *)
(* (class SubscriptionManager): the active/background state controller,    *)
(* the background poller and the activity tracking.                        *)
(*                                                                         *)
(* The program runs on one JavaScript execution context.  An action of     *)
(* this model is one run-to-completion step: the synchronous code from a   *)
(* call, or from the settling of an awaited promise or timer, up to the    *)
(* next await.  The transport (streamrController / channelManager) and     *)
(* the channel registry are external collaborators; their state is         *)
(* modelled from the interface the specification gives for them.  The      *)
(* crypto worker pool (class CryptoWorkerPool) and the push relay manager  *)
(* (class RelayManager) are modelled beside the manager, each in one       *)
(* record-valued variable.                                                 *)
(***************************************************************************)
EXTENDS Integers, Sequences, FiniteSets, TLC

\* ------------------------------------------------------------------ bounds
MaxCalls == 2       \* setActiveChannel / clearActiveChannel calls in flight
MaxChecks == 2      \* checkChannelActivity calls in flight
MaxCycles == 2      \* pollBackgroundChannels runs in flight
MaxTime == 3        \* last value of the clock (Date.now())
MaxTs == 3          \* largest message timestamp
MaxUnread == 3      \* unreadCount is not grown beyond this
MaxMsgs == 3        \* messages in one fetched history page
MaxBatch == 2       \* largest configured POLL_BATCH_SIZE
MaxWarmups == 1     \* warm-up timeouts pending
MaxHandlers == 1    \* registered activity handlers
MaxObservers == 3   \* registered activity handlers where their order is observed
MaxCursor == 3      \* largest poll cursor a window starts from
MaxExecs == 3       \* execute calls made on the crypto worker pool
MaxInits == 2       \* init calls made on the relay manager
MaxSubscribes == 2  \* subscribe calls the host makes on the relay manager

Channels == {"a", "b", "c"}
None == "none"                       \* null
StartTime == 2                       \* the clock when the model starts
Times == StartTime..MaxTime
Timestamps == 0..MaxTs
NoMsgs == 0 - 1                      \* channel.messages absent or empty

Min(a, b) == IF a < b THEN a ELSE b
Max(a, b) == IF a < b THEN b ELSE a
SetMin(S) == CHOOSE x \in S : \A y \in S : x <= y
Range(s) == {s[i] : i \in 1..Len(s)}

\* ------------------------------------------------------------------- state
VARIABLES
    registry,          \* channelManager.getAllChannels(): channel ids in order
    memLatest,         \* per channel: timestamp of the last of channel.messages
    lastAccess,        \* secureStorage.getAllChannelLastAccess()
    live,              \* transport: channels subscribed and not unsubscribed
    activeChannelId,   \* this.activeChannelId
    heap,              \* the activity record objects, by object identity
    channelActivity,   \* this.channelActivity: channel -> object (0: no entry)
    activityHandlers,  \* this.activityHandlers
    backgroundPoller,  \* this.backgroundPoller: TRUE while it holds a timer handle
    intervals,         \* setInterval timers created and not cleared
    warmups,           \* pending warm-up timeouts of startBackgroundPoller
    pollIndex,         \* this.pollIndex
    isPolling,         \* this.isPolling
    config,            \* this.config
    now,               \* Date.now()
    calls,             \* setActiveChannel / clearActiveChannel calls in flight
    cycles,            \* pollBackgroundChannels runs in flight
    checks,            \* checkChannelActivity calls in flight
    seen,              \* history: page of the last completed check per channel
    visited,           \* history: channels selected since the window began
    cyclesRun,         \* history: poll cycles since the window began
    lastEvent,         \* history: what the last step did
    pool,              \* the crypto worker pool (class CryptoWorkerPool)
    relay              \* the push relay manager (class RelayManager)

vars == <<registry, memLatest, lastAccess, live, activeChannelId, heap, channelActivity,
          activityHandlers, backgroundPoller, intervals, warmups, pollIndex, isPolling,
          config, now, calls, cycles, checks, seen, visited, cyclesRun,
          lastEvent, pool, relay>>

envVars == <<registry, memLatest, lastAccess, config>>
timerVars == <<backgroundPoller, intervals, warmups>>
windowVars == <<visited, cyclesRun>>
restVars == <<visited, cyclesRun, pool, relay>>
managerVars == <<registry, memLatest, lastAccess, live, activeChannelId, heap,
                 channelActivity, activityHandlers, backgroundPoller, intervals, warmups,
                 pollIndex, isPolling, config, now, calls, cycles, checks, seen, visited,
                 cyclesRun, lastEvent>>

\* --------------------------------------------------------- activity objects
NumObjs == Cardinality(Channels) + MaxChecks + 1
ObjIds == 1..NumObjs
NoObj == 0
ZeroRec == [lastMessageTime |-> 0, unreadCount |-> 0, lastChecked |-> 0]
Rec(t, u, l) == [lastMessageTime |-> t, unreadCount |-> u, lastChecked |-> l]

\* removed (history): the record of chan was deleted while the check was in
\* flight
IdleCheck == [chan |-> None, obj |-> NoObj, owner |-> 0 - 1, removed |-> FALSE]
CheckSlots == 1..MaxChecks
Busy(chk) == {k \in DOMAIN chk : chk[k].chan # None}

\* objects still referenced by the map or by a check in flight
Refs(ca, chk) == ({ca[c] : c \in Channels} \cup {chk[k].obj : k \in Busy(chk)}) \ {NoObj}
\* a new object: an identity nothing refers to
Alloc(ca, chk) == SetMin(ObjIds \ Refs(ca, chk))

\* Object identities carry no meaning beyond equality.  After every step the
\* objects are renamed: the record of the i-th channel is object i, and the
\* objects only checks in flight still hold follow, in the order of the
\* checks; objects nothing refers to are dropped.
ChannelOrder == <<"a", "b", "c">>
ChannelIndex(c) == CHOOSE i \in 1..Len(ChannelOrder) : ChannelOrder[i] = c
Normalize(h, ca, chk) ==
    LET inMap == {ca[c] : c \in Channels} \ {NoObj}
        loose == {chk[k].obj : k \in Busy(chk)} \ (inMap \cup {NoObj})
        first(o) == SetMin({k \in Busy(chk) : chk[k].obj = o})
        rank(o) == Cardinality({q \in loose : first(q) < first(o)}) + 1
        ren(o) == IF o = NoObj THEN NoObj
                  ELSE IF o \in inMap
                       THEN ChannelIndex(CHOOSE c \in Channels : ca[c] = o)
                       ELSE Cardinality(Channels) + rank(o)
        kept == inMap \cup loose
    IN [heap |-> [n \in ObjIds |->
                    IF \E o \in kept : ren(o) = n
                    THEN h[CHOOSE o \in kept : ren(o) = n]
                    ELSE ZeroRec],
        channelActivity |-> [c \in Channels |-> ren(ca[c])],
        checks |-> [k \in DOMAIN chk |-> [chk[k] EXCEPT !.obj = ren(@)]]]

\* the step leaves these activity objects, map and checks in flight
Store(h, ca, chk) ==
    LET n == Normalize(h, ca, chk) IN
    /\ heap' = n.heap
    /\ channelActivity' = n.channelActivity
    /\ checks' = n.checks

HasActivity(c) == channelActivity[c] # NoObj
Activity(c) == heap[channelActivity[c]]

NoFetch == <<0 - 1>>

\* ------------------------------------------------------------------ events
NoEvent == [op |-> "none", id |-> None, batch |-> <<>>, from |-> 0, upto |-> 0,
            fetch |-> None, msgs |-> <<>>, before |-> ZeroRec, had |-> FALSE,
            repeat |-> FALSE, same |-> FALSE, notifs |-> <<>>, raised |-> FALSE, req |-> <<>>]
Ev(op, id) == [NoEvent EXCEPT !.op = op, !.id = id]

\* ---------------------------------------------------------------- registry
InRegistry(c) == c \in Range(registry)
\* channel && channel.messages?.length > 0
HasMessages(c) == InRegistry(c) /\ memLatest[c] # NoMsgs

\* ------------------------------------------------- state controller (4.1)
CallSlots == 1..MaxCalls
\* prev, unsubs, settled: the pointer the call found, and the unsubscribe
\* requests it has issued and seen settle
IdleCall == [op |-> "idle", id |-> None, pc |-> "idle", target |-> None,
             prev |-> None, unsubs |-> 0, settled |-> FALSE]
FreeCalls == {k \in CallSlots : calls[k].op = "idle"}

\* downgradeToBackground up to its await: the record written from the
\* channel's in-memory messages (latestMsg.timestamp || Date.now())
DowngradeRec(c) == Rec(IF memLatest[c] = 0 THEN now ELSE memLatest[c], 0, now)
DowngradeWrites(c) == HasMessages(c)

Downgrade(c) ==
    IF DowngradeWrites(c)
    THEN LET o == Alloc(channelActivity, checks) IN
         /\ Store([heap EXCEPT ![o] = DowngradeRec(c)],
                  [channelActivity EXCEPT ![c] = o], checks)
         /\ seen' = [seen EXCEPT ![c] = NoFetch]
    ELSE UNCHANGED <<heap, channelActivity, checks, seen>>

\* no setActiveChannel or clearActiveChannel call is in flight
Quiescent == \A k \in CallSlots : calls[k].op = "idle"

\* what the state controller's steps leave alone
ctrlRest == <<envVars, timerVars, activityHandlers, pollIndex, isPolling, now,
              cycles>>

\* faulty variant: the previous active channel is never downgraded
HasPreviousNever == FALSE

\* if (this.activeChannelId): a previous active channel is downgraded first
HasPrevious == activeChannelId # None

\* if (this.activeChannelId === streamId): nothing to do
AlreadyActive(streamId) == activeChannelId = streamId

\* setActiveChannel(streamId) up to its first await
SetActiveChannel(streamId) ==
    \/ /\ streamId = None                                   \* missing id
       /\ lastEvent' = Ev("setActive", streamId)
       /\ UNCHANGED <<activeChannelId, calls, live, heap, channelActivity, checks, seen, ctrlRest>>
    \/ /\ streamId # None
       /\ AlreadyActive(streamId)
       /\ lastEvent' = Ev("setActive", streamId)
       /\ UNCHANGED <<activeChannelId, calls, live, heap, channelActivity, checks, seen, ctrlRest>>
    \/ /\ streamId # None
       /\ ~AlreadyActive(streamId)
       /\ HasPrevious                                       \* downgrade first
       /\ FreeCalls # {}
       /\ Downgrade(activeChannelId)
       /\ calls' = [calls EXCEPT ![SetMin(FreeCalls)] =
                      [op |-> "setActive", id |-> streamId, pc |-> "unsubscribe",
                       target |-> activeChannelId, prev |-> activeChannelId,
                       unsubs |-> 1, settled |-> FALSE]]
       /\ lastEvent' = [Ev("setActive", streamId) EXCEPT
                          !.req = <<<<"unsubscribe", activeChannelId>>>>]
       /\ UNCHANGED <<activeChannelId, live, ctrlRest>>
    \/ /\ streamId # None
       /\ ~AlreadyActive(streamId)
       /\ ~HasPrevious
       /\ FreeCalls # {}
       /\ activeChannelId' = streamId
       /\ calls' = [calls EXCEPT ![SetMin(FreeCalls)] =
                      [op |-> "setActive", id |-> streamId, pc |-> "subscribe",
                       target |-> None, prev |-> activeChannelId,
                       unsubs |-> 0, settled |-> FALSE]]
       /\ lastEvent' = [Ev("setActive", streamId) EXCEPT
                          !.req = <<<<"subscribe", streamId>>>>]
       /\ UNCHANGED <<live, heap, channelActivity, checks, seen, ctrlRest>>

\* clearActiveChannel() up to its await
ClearActiveChannel ==
    \/ /\ activeChannelId = None
       /\ lastEvent' = Ev("clearActive", None)
       /\ UNCHANGED <<activeChannelId, calls, live, heap, channelActivity, checks, seen, ctrlRest>>
    \/ /\ activeChannelId # None
       /\ FreeCalls # {}
       /\ Downgrade(activeChannelId)
       /\ calls' = [calls EXCEPT ![SetMin(FreeCalls)] =
                      [op |-> "clearActive", id |-> None, pc |-> "unsubscribe",
                       target |-> activeChannelId, prev |-> activeChannelId,
                       unsubs |-> 1, settled |-> FALSE]]
       /\ lastEvent' = [Ev("clearActive", None) EXCEPT
                          !.req = <<<<"unsubscribe", activeChannelId>>>>]
       /\ UNCHANGED <<activeChannelId, live, ctrlRest>>

\* faulty variant: a rejected unsubscribe ends the call that awaited it
UnsubscribeSettlesRaises(k, ok) ==
    /\ calls[k].pc = "unsubscribe"
    /\ live' = IF ok THEN live \ {calls[k].target} ELSE live
    /\ activeChannelId' = IF ~ok THEN activeChannelId
                          ELSE IF calls[k].op = "setActive" THEN calls[k].id ELSE None
    /\ calls' = IF ok /\ calls[k].op = "setActive"
                THEN [calls EXCEPT ![k].pc = "subscribe", ![k].settled = TRUE]
                ELSE [calls EXCEPT ![k] = IdleCall]
    /\ lastEvent' = [Ev("unsubscribed", calls[k].target) EXCEPT
                       !.raised = ~ok,
                       !.req = IF ok /\ calls[k].op = "setActive"
                               THEN <<<<"subscribe", calls[k].id>>>> ELSE <<>>]
    /\ UNCHANGED <<heap, channelActivity, checks, seen, ctrlRest>>

\* streamrController.unsubscribe(target) settles; a rejection is caught in
\* downgradeToBackground, and the caller continues after its await
UnsubscribeSettles(k, ok) ==
    /\ calls[k].pc = "unsubscribe"
    /\ live' = IF ok THEN live \ {calls[k].target} ELSE live
    /\ \/ /\ calls[k].op = "setActive"
          /\ activeChannelId' = calls[k].id
          /\ calls' = [calls EXCEPT ![k].pc = "subscribe", ![k].settled = TRUE]
          /\ lastEvent' = [Ev("unsubscribed", calls[k].target) EXCEPT
                             !.raised = ~ok,
                             !.req = <<<<"subscribe", calls[k].id>>>>]
       \/ /\ calls[k].op = "clearActive"
          /\ activeChannelId' = None
          /\ calls' = [calls EXCEPT ![k] = IdleCall]
          /\ lastEvent' = [Ev("unsubscribed", calls[k].target) EXCEPT !.raised = ~ok]
    /\ UNCHANGED <<heap, channelActivity, checks, seen, ctrlRest>>

\* faulty variant: a rejected subscribe puts the pointer back to what the
\* call found
SubscribeSettlesRollsBack(k, ok) ==
    /\ calls[k].pc = "subscribe"
    /\ live' = IF ok THEN live \cup {calls[k].id} ELSE live
    /\ activeChannelId' = IF ok THEN activeChannelId ELSE calls[k].prev
    /\ calls' = [calls EXCEPT ![k] = IdleCall]
    /\ lastEvent' = [Ev("subscribed", calls[k].id) EXCEPT !.raised = ~ok]
    /\ UNCHANGED <<heap, channelActivity, checks, seen, ctrlRest>>

\* channelManager.subscribeToChannel(id) settles; a rejection is rethrown
SubscribeSettles(k, ok) ==
    /\ calls[k].pc = "subscribe"
    /\ live' = IF ok THEN live \cup {calls[k].id} ELSE live
    /\ calls' = [calls EXCEPT ![k] = IdleCall]
    /\ lastEvent' = [Ev("subscribed", calls[k].id) EXCEPT !.raised = ~ok]
    /\ UNCHANGED <<activeChannelId, heap, channelActivity, checks, seen, ctrlRest>>

\* the checks in flight, those of the channels chans marked as overtaken by
\* the deletion of their record
MarkRemoved(chans) ==
    [k \in CheckSlots |->
        IF checks[k].chan \in chans THEN [checks[k] EXCEPT !.removed = TRUE]
        ELSE checks[k]]

\* faulty variant: the pointer is left at the removed channel
RemoveChannelKeepsPointer(streamId) ==
    /\ Store(heap, [channelActivity EXCEPT ![streamId] = NoObj], MarkRemoved({streamId}))
    /\ seen' = [seen EXCEPT ![streamId] = NoFetch]
    /\ lastEvent' = Ev("removeChannel", streamId)
    /\ UNCHANGED <<activeChannelId, calls, live, ctrlRest>>

\* removeChannel(streamId)
RemoveChannel(streamId) ==
    /\ Store(heap, [channelActivity EXCEPT ![streamId] = NoObj], MarkRemoved({streamId}))
    /\ seen' = [seen EXCEPT ![streamId] = NoFetch]
    /\ activeChannelId' = IF activeChannelId = streamId THEN None ELSE activeChannelId
    /\ lastEvent' = Ev("removeChannel", streamId)
    /\ UNCHANGED <<calls, live, ctrlRest>>

\* ------------------------------------------------ activity tracking (4.3)
FreeChecks == {k \in CheckSlots : checks[k].chan = None}

\* const currentActivity = this.channelActivity.get(streamId) || {0, 0, 0}:
\* the object of the map, or a new object that is not in the map
CurrentActivity(c) ==
    IF HasActivity(c) THEN channelActivity[c] ELSE Alloc(channelActivity, checks)

\* checkChannelActivity(channel) up to its await: the fetch is requested
BeginCheck(c, owner) ==
    [checks EXCEPT ![SetMin(FreeChecks)] =
        [chan |-> c, obj |-> CurrentActivity(c), owner |-> owner, removed |-> FALSE]]

\* faulty variant: a message as old as lastMessageTime counts as new
IsNewOrEqual(ts, lastMessageTime) == ts >= lastMessageTime

\* if (msg.timestamp > currentActivity.lastMessageTime)
IsNew(ts, lastMessageTime) == ts > lastMessageTime

\* the loop over the fetched messages: newCount and latestTime
RECURSIVE ScanMessages(_, _, _)
ScanMessages(msgs, lastMessageTime, acc) ==
    IF msgs = <<>> THEN acc
    ELSE LET ts == Head(msgs) IN
         ScanMessages(Tail(msgs), lastMessageTime,
            IF IsNew(ts, lastMessageTime)
            THEN [newCount |-> acc.newCount + 1,
                  latestTime |-> IF ts > acc.latestTime THEN ts ELSE acc.latestTime]
            ELSE acc)

Scan(cur, msgs) ==
    ScanMessages(msgs, cur.lastMessageTime,
                 [newCount |-> 0, latestTime |-> cur.lastMessageTime])

\* faulty variant: lastMessageTime is not advanced
NewActivityStaleTime(cur, msgs) ==
    Rec(cur.lastMessageTime, cur.unreadCount + Scan(cur, msgs).newCount, now)

\* const newActivity = {...}
NewActivity(cur, msgs) ==
    Rec(Scan(cur, msgs).latestTime, cur.unreadCount + Scan(cur, msgs).newCount, now)

Handlers == {"h1", "h2"}
NotAFunction == "notAFunction"
\* the handler that throws when it is called
Throws(h) == h = "h2"

\* faulty variant: the exception of a handler ends the loop
NotifyActivityHandlersUncaught(c, activity) ==
    LET n == Len(activityHandlers)
        thrown == {i \in 1..n : Throws(activityHandlers[i])}
        last == IF thrown = {} THEN n ELSE SetMin(thrown)
    IN [i \in 1..last |-> <<activityHandlers[i], c, activity>>]

\* notifyActivityHandlers(streamId, activity): the calls made, in order; what
\* a handler throws is caught inside the loop
NotifyActivityHandlers(c, activity) ==
    [i \in 1..Len(activityHandlers) |-> <<activityHandlers[i], c, activity>>]

\* if (newCount > 0) this.notifyActivityHandlers(streamId, newActivity)
NotifiesOn(newCount) == newCount > 0

\* the record of c before a step, for the step's event
Before(c) == IF HasActivity(c) THEN Activity(c) ELSE ZeroRec

\* the fetch of check k resolved with msgs: the rest of the try block
CheckSucceeds(k, msgs) ==
    LET c == checks[k].chan
        cur == heap[checks[k].obj]
        new == NewActivity(cur, msgs)
        o == Alloc(channelActivity, checks)
    IN /\ new.unreadCount <= MaxUnread
       /\ Store([heap EXCEPT ![o] = new], [channelActivity EXCEPT ![c] = o],
                [checks EXCEPT ![k] = IdleCheck])
       /\ seen' = [seen EXCEPT ![c] = msgs]
       /\ lastEvent' = [Ev("check", c) EXCEPT
             !.msgs = msgs, !.before = Before(c), !.had = HasActivity(c),
             !.repeat = (seen[c] = msgs),
             !.same = (checks[k].obj = channelActivity[c]),
             !.notifs = IF NotifiesOn(Scan(cur, msgs).newCount)
                        THEN NotifyActivityHandlers(c, new) ELSE <<>>]

\* the fetch of check k rejected: the catch block, which rethrows
CheckFails(k) ==
    LET c == checks[k].chan
        o == checks[k].obj
    IN /\ Store([heap EXCEPT ![o].lastChecked = now],
                [channelActivity EXCEPT ![c] = o],
                [checks EXCEPT ![k] = IdleCheck])
       /\ seen' = [seen EXCEPT ![c] = IF o = channelActivity[c] THEN @ ELSE NoFetch]
       /\ lastEvent' = [Ev("check", c) EXCEPT
             !.before = Before(c), !.had = HasActivity(c),
             !.same = (o = channelActivity[c]), !.raised = TRUE]

\* faulty variant: the whole record is reset, not only its unreadCount
ClearUnreadCountResetsRecord(streamId) ==
    /\ heap' = IF HasActivity(streamId)
               THEN [heap EXCEPT ![channelActivity[streamId]] = ZeroRec]
               ELSE heap
    /\ lastEvent' = [Ev("clearUnread", streamId) EXCEPT
                       !.before = Before(streamId), !.had = HasActivity(streamId)]
    /\ UNCHANGED <<channelActivity, checks, seen, envVars, timerVars,
                   activityHandlers, activeChannelId, calls, live, pollIndex,
                   isPolling, now, cycles>>

\* getUnreadCount(streamId): activity?.unreadCount || 0
GetUnreadCount(streamId) ==
    IF HasActivity(streamId) THEN Activity(streamId).unreadCount ELSE 0

\* clearUnreadCount(streamId): the object of the map is changed in place
ClearUnreadCount(streamId) ==
    /\ heap' = IF HasActivity(streamId)
               THEN [heap EXCEPT ![channelActivity[streamId]].unreadCount = 0]
               ELSE heap
    /\ lastEvent' = [Ev("clearUnread", streamId) EXCEPT
                       !.before = Before(streamId), !.had = HasActivity(streamId)]
    /\ UNCHANGED <<channelActivity, checks, seen, envVars, timerVars,
                   activityHandlers, activeChannelId, calls, live, pollIndex,
                   isPolling, now, cycles>>

\* faulty variant: whatever is passed is registered
OnActivityAny(handler) ==
    /\ activityHandlers' = Append(activityHandlers, handler)
    /\ lastEvent' = Ev("onActivity", handler)
    /\ UNCHANGED <<heap, channelActivity, checks, seen, envVars, timerVars,
                   activeChannelId, calls, live, pollIndex, isPolling, now, cycles>>

\* onActivity(handler)
OnActivity(handler) ==
    /\ activityHandlers' = IF handler \in Handlers             \* typeof === 'function'
                           THEN Append(activityHandlers, handler)
                           ELSE activityHandlers
    /\ lastEvent' = Ev("onActivity", handler)
    /\ UNCHANGED <<heap, channelActivity, checks, seen, envVars, timerVars,
                   activeChannelId, calls, live, pollIndex, isPolling, now, cycles>>

\* offActivity(handler)
OffActivity(handler) ==
    /\ activityHandlers' = SelectSeq(activityHandlers, LAMBDA h : h # handler)
    /\ lastEvent' = Ev("offActivity", handler)
    /\ UNCHANGED <<heap, channelActivity, checks, seen, envVars, timerVars,
                   activeChannelId, calls, live, pollIndex, isPolling, now, cycles>>

\* ------------------------------------------------- background poller (4.2)
CycleSlots == 1..MaxCycles
IdleCycle == [pc |-> "idle", batch |-> <<>>, i |-> 0]
FreeCycles == {j \in CycleSlots : cycles[j].pc = "idle"}

\* faulty variant: the active channel is not filtered out
BackgroundChannelsAll == registry

\* channels.filter(c => c.streamId !== this.activeChannelId)
BackgroundChannels == SelectSeq(registry, LAMBDA c : c # activeChannelId)

\* faulty variant: the batch size is not capped by the background set
BatchSizeUncapped(bg) == config.POLL_BATCH_SIZE

\* Math.min(this.config.POLL_BATCH_SIZE, backgroundChannels.length)
BatchSize(bg) == Min(config.POLL_BATCH_SIZE, Len(bg))

\* backgroundChannels[(this.pollIndex + i) % backgroundChannels.length]
ChannelsToPoll(bg, p, n) == [i \in 1..n |-> bg[((p + (i - 1)) % Len(bg)) + 1]]

\* faulty variant: the cursor does not advance
NextPollIndexStuck(bg, p, n) == p % Len(bg)

\* this.pollIndex = (this.pollIndex + batchSize) % backgroundChannels.length
NextPollIndex(bg, p, n) == (p + n) % Len(bg)

\* faulty variant: no cool-down
InCooldownNever(c) == FALSE

\* Date.now() - (activity?.lastChecked || 0) < this.config.MIN_POLL_INTERVAL
InCooldown(c) ==
    now - (IF HasActivity(c) THEN Activity(c).lastChecked ELSE 0)
        < config.MIN_POLL_INTERVAL

\* the for loop from position i on: the first channel that is not skipped
RECURSIVE FirstDue(_, _)
FirstDue(batch, i) ==
    IF i > Len(batch) THEN i
    ELSE IF InCooldown(batch[i]) THEN FirstDue(batch, i + 1)
    ELSE i

\* faulty variant: the check is started and not awaited, the loop goes on to
\* its stagger delay
RunLoopFansOut(j, batch, i, op) ==
    LET d == FirstDue(batch, i) IN
    /\ lastEvent' = [Ev(op, None) EXCEPT
          !.batch = batch, !.from = i, !.upto = d,
          !.fetch = IF d <= Len(batch) THEN batch[d] ELSE None]
    /\ IF d <= Len(batch)
       THEN /\ FreeChecks # {}
            /\ Store(heap, channelActivity, BeginCheck(batch[d], j))
            /\ cycles' = [cycles EXCEPT ![j] =
                            [pc |-> IF d < Len(batch) THEN "stagger" ELSE "fetch",
                             batch |-> batch, i |-> d]]
            /\ isPolling' = TRUE
       ELSE /\ UNCHANGED <<heap, channelActivity, checks>>
            /\ cycles' = [cycles EXCEPT ![j] = IdleCycle]
            /\ isPolling' = FALSE

\* the for loop of cycle j from position i up to its next await, or to its
\* end and the finally block
RunLoop(j, batch, i, op) ==
    LET d == FirstDue(batch, i) IN
    /\ lastEvent' = [Ev(op, None) EXCEPT
          !.batch = batch, !.from = i, !.upto = d,
          !.fetch = IF d <= Len(batch) THEN batch[d] ELSE None]
    /\ IF d <= Len(batch)
       THEN /\ FreeChecks # {}
            /\ Store(heap, channelActivity, BeginCheck(batch[d], j))
            /\ cycles' = [cycles EXCEPT ![j] = [pc |-> "fetch", batch |-> batch, i |-> d]]
            /\ isPolling' = TRUE
       ELSE /\ UNCHANGED <<heap, channelActivity, checks>>
            /\ cycles' = [cycles EXCEPT ![j] = IdleCycle]
            /\ isPolling' = FALSE

\* what the poller's steps leave alone
pollRest == <<envVars, activityHandlers, activeChannelId, calls, live, now, seen>>

\* pollBackgroundChannels() up to its first await
PollBackgroundChannels ==
    \/ /\ isPolling                                  \* already in progress
       /\ lastEvent' = Ev("pollSkipped", None)
       /\ UNCHANGED <<isPolling, pollIndex, cycles, heap, channelActivity, checks,
                      pollRest>>
    \/ /\ ~isPolling
       /\ BackgroundChannels = <<>>
       /\ isPolling' = FALSE
       /\ lastEvent' = Ev("poll", None)
       /\ UNCHANGED <<pollIndex, cycles, heap, channelActivity, checks, pollRest>>
    \/ /\ ~isPolling
       /\ BackgroundChannels # <<>>
       /\ FreeCycles # {}
       /\ LET bg == BackgroundChannels
              n == BatchSize(bg)
          IN /\ pollIndex' = NextPollIndex(bg, pollIndex, n)
             /\ RunLoop(SetMin(FreeCycles), ChannelsToPoll(bg, pollIndex, n), 1, "poll")
       /\ UNCHANGED pollRest

\* pollBackgroundChannels() when channelManager.getAllChannels() throws: the
\* guard is taken, the finally block releases it, and the call rejects
PollRegistryRaises ==
    /\ ~isPolling
    /\ isPolling' = FALSE
    /\ lastEvent' = [Ev("poll", None) EXCEPT !.raised = TRUE]
    /\ UNCHANGED <<pollIndex, cycles, heap, channelActivity, checks, pollRest>>

\* the stagger timeout of cycle j fires: the loop goes on with the next channel
StaggerFires(j) ==
    /\ cycles[j].pc = "stagger"
    /\ RunLoop(j, cycles[j].batch, cycles[j].i + 1, "stagger")
    /\ UNCHANGED <<pollIndex, pollRest, timerVars>>

\* faulty variant: the cycle ends after the first check, whatever is left
AfterCheckAborts(j) ==
    /\ cycles' = [cycles EXCEPT ![j] = IdleCycle]
    /\ isPolling' = FALSE

\* faulty variant: the end of the loop does not release the guard
AfterCheckKeepsGuard(j) ==
    /\ cycles' = [cycles EXCEPT ![j] =
                    IF cycles[j].i < Len(cycles[j].batch)
                    THEN [cycles[j] EXCEPT !.pc = "stagger"] ELSE IdleCycle]
    /\ UNCHANGED isPolling

\* after the check of cycle j settled: the stagger delay, or the end of the
\* loop and the finally block
AfterCheck(j) ==
    IF cycles[j].i < Len(cycles[j].batch)
    THEN /\ cycles' = [cycles EXCEPT ![j].pc = "stagger"]
         /\ UNCHANGED isPolling
    ELSE /\ cycles' = [cycles EXCEPT ![j] = IdleCycle]
         /\ isPolling' = FALSE

\* streamrController.fetchOlderHistory of check k settles
FetchSettles(k, ok, msgs) ==
    /\ checks[k].chan # None
    /\ \/ ok /\ CheckSucceeds(k, msgs)
       \/ ~ok /\ msgs = <<>> /\ CheckFails(k)
    /\ IF checks[k].owner > 0
       THEN AfterCheck(checks[k].owner)
       ELSE UNCHANGED <<cycles, isPolling>>
    /\ UNCHANGED <<pollIndex, envVars, activityHandlers, activeChannelId, calls,
                   live, now, timerVars>>

forceRest == <<pollIndex, isPolling, cycles, pollRest, timerVars>>

\* faulty variant: the active channel is polled like any other
ForceSkipsUnknownOnly(streamId) == ~InRegistry(streamId)

\* faulty variant: nothing is polled while a poll cycle is in progress
ForceSkipsWhilePolling(streamId) ==
    ~InRegistry(streamId) \/ streamId = activeChannelId \/ isPolling

\* if (!channel || streamId === this.activeChannelId) return
ForceSkips(streamId) == ~InRegistry(streamId) \/ streamId = activeChannelId

\* forcePollChannel(streamId) up to its await
ForcePollChannel(streamId) ==
    \/ /\ ForceSkips(streamId)
       /\ lastEvent' = Ev("forcePoll", streamId)
       /\ UNCHANGED <<heap, channelActivity, checks, forceRest>>
    \/ /\ ~ForceSkips(streamId)
       /\ FreeChecks # {}
       /\ Store(heap, channelActivity, BeginCheck(streamId, 0))
       /\ lastEvent' = [Ev("forcePoll", streamId) EXCEPT !.fetch = streamId]
       /\ UNCHANGED forceRest

\* -------------------------------------------------------------- lifecycle
\* faulty variant: the records of all registry channels are initialised anew
RECURSIVE InitializeActivityOverwrites(_, _, _)
InitializeActivityOverwrites(chans, h, ca) ==
    IF chans = <<>> THEN [heap |-> h, channelActivity |-> ca]
    ELSE LET c == Head(chans)
             o == IF ca[c] # NoObj THEN ca[c] ELSE Alloc(ca, checks)
         IN InitializeActivityOverwrites(Tail(chans),
                                         [h EXCEPT ![o] = Rec(lastAccess[c], 0, 0)],
                                         [ca EXCEPT ![c] = o])

\* initializeActivityState(): a record for every registry channel without one
RECURSIVE InitializeActivity(_, _, _)
InitializeActivity(chans, h, ca) ==
    IF chans = <<>> THEN [heap |-> h, channelActivity |-> ca]
    ELSE LET c == Head(chans) IN
         IF ca[c] # NoObj THEN InitializeActivity(Tail(chans), h, ca)
         ELSE LET o == Alloc(ca, checks) IN
              InitializeActivity(Tail(chans),
                                 [h EXCEPT ![o] = Rec(lastAccess[c], 0, 0)],
                                 [ca EXCEPT ![c] = o])

startRest == <<pollIndex, isPolling, cycles, pollRest>>

\* faulty variant: start creates a timer whether or not one is running
StartBackgroundPollerAlways ==
    /\ warmups < MaxWarmups
    /\ intervals <= 1
    /\ LET init == InitializeActivity(registry, heap, channelActivity)
       IN Store(init.heap, init.channelActivity, checks)
    /\ backgroundPoller' = TRUE
    /\ intervals' = intervals + 1
    /\ warmups' = warmups + 1
    /\ lastEvent' = Ev("start", None)
    /\ UNCHANGED startRest

\* startBackgroundPoller()
StartBackgroundPoller ==
    \/ /\ backgroundPoller
       /\ lastEvent' = Ev("start", None)
       /\ UNCHANGED <<backgroundPoller, intervals, warmups, heap, channelActivity,
                      checks, startRest>>
    \/ /\ ~backgroundPoller
       /\ warmups < MaxWarmups
       /\ LET init == InitializeActivity(registry, heap, channelActivity)
          IN Store(init.heap, init.channelActivity, checks)
       /\ backgroundPoller' = TRUE
       /\ intervals' = intervals + 1
       /\ warmups' = warmups + 1
       /\ lastEvent' = Ev("start", None)
       /\ UNCHANGED startRest

\* the setInterval callback
IntervalFires ==
    /\ intervals > 0
    /\ PollBackgroundChannels
    /\ UNCHANGED timerVars

\* the warm-up setTimeout callback
WarmupFires ==
    /\ warmups > 0
    /\ warmups' = warmups - 1
    /\ PollBackgroundChannels
    /\ UNCHANGED <<backgroundPoller, intervals>>

\* stopBackgroundPoller()
StopBackgroundPoller ==
    /\ backgroundPoller' = FALSE
    /\ intervals' = IF backgroundPoller THEN intervals - 1 ELSE intervals
    /\ lastEvent' = Ev("stop", None)
    /\ UNCHANGED <<warmups, heap, channelActivity, checks, startRest>>

\* faulty variant: cleanup leaves the guard and the cursor as they are
CleanupKeepsPollState ==
    /\ backgroundPoller' = FALSE
    /\ intervals' = IF backgroundPoller THEN intervals - 1 ELSE intervals
    /\ activeChannelId' = None
    /\ Store(heap, [c \in Channels |-> NoObj], MarkRemoved(Channels))
    /\ seen' = [c \in Channels |-> NoFetch]
    /\ activityHandlers' = <<>>
    /\ lastEvent' = Ev("cleanup", None)
    /\ UNCHANGED <<pollIndex, isPolling, calls, live, warmups, envVars, now, cycles>>

\* cleanup()
Cleanup ==
    /\ backgroundPoller' = FALSE
    /\ intervals' = IF backgroundPoller THEN intervals - 1 ELSE intervals
    /\ activeChannelId' = None
    /\ Store(heap, [c \in Channels |-> NoObj], MarkRemoved(Channels))
    /\ seen' = [c \in Channels |-> NoFetch]
    /\ pollIndex' = 0
    /\ isPolling' = FALSE
    /\ activityHandlers' = <<>>
    /\ lastEvent' = Ev("cleanup", None)
    /\ UNCHANGED <<calls, live, warmups, envVars, now, cycles>>

\* the clock advances
Tick ==
    /\ now < MaxTime
    /\ now' = now + 1
    /\ lastEvent' = Ev("tick", None)
    /\ UNCHANGED <<envVars, timerVars, activityHandlers, activeChannelId, calls,
                   live, heap, channelActivity, seen, pollIndex, isPolling,
                   cycles, checks>>

\* ---------------------------------------------------------- specifications
\* ------------------------------------------------------ crypto worker pool
\* class CryptoWorkerPool (src/js/workers/cryptoWorkerPool.js).  A step is
\* the synchronous code of a call or of an event handler together with the
\* continuations that run as microtasks right after it.
PoolSize == 2       \* this.poolSize when hardwareConcurrency is not reported

NoTask == 0
PoolEv(op, e, id) == [op |-> op, exec |-> e, id |-> id]

\* the pool after its constructor; ready, execs and last are not fields of
\* the object: the state of the init run in flight, the execute calls made
\* (their promise and the job a worker holds for them) and the last step
NewPool ==
    [initialized |-> FALSE, initializing |-> FALSE, useFallback |-> FALSE,
     taskId |-> 0, currentWorker |-> 0, workers |-> 0, pendingTasks |-> {},
     ready |-> "none", initiator |-> 0, execs |-> <<>>,
     last |-> PoolEv("none", 0, NoTask)]

NewExec(st) ==
    [st |-> st, id |-> NoTask, job |-> "none", settles |-> 0]

PromisePending(x) == x.st \in {"awaitInit", "fallback", "posted"}
PromiseSettled(x) == x.st \in {"resolved", "rejected"}

\* resolve (success) or reject of the promise of an execute call: the first
\* call settles the promise, and settles counts the calls
Settle(x, success) ==
    [x EXCEPT !.st = IF PromiseSettled(x) THEN @
                     ELSE IF success THEN "resolved" ELSE "rejected",
              !.settles = @ + 1]

\* execute from the fallback test on: the task gets the next id, is stored
\* in pendingTasks and is posted to the next worker of the round robin; with
\* no worker in this.workers postMessage throws in the promise's executor
ExecuteBody(p, e) ==
    IF p.useFallback
    THEN [p EXCEPT !.execs[e].st = "fallback"]
    ELSE LET id == p.taskId + 1
             posted == [p.execs[e] EXCEPT !.st = "posted", !.id = id]
         IN [p EXCEPT !.taskId = id,
                      !.pendingTasks = @ \cup {id},
                      !.currentWorker = (@ + 1) % PoolSize,
                      !.execs[e] =
                          IF p.currentWorker >= p.workers
                          THEN Settle(posted, FALSE)
                          ELSE [posted EXCEPT !.job = "running"]]

\* init up to its first await, for a pool that is neither initialized nor
\* initializing: without Worker support the fallback is chosen at once
PoolInit(p, supported) ==
    IF supported
    THEN [p EXCEPT !.initializing = TRUE, !.workers = @ + PoolSize,
                   !.ready = "waiting"]
    ELSE [p EXCEPT !.useFallback = TRUE, !.initialized = TRUE]

\* execute(type, payload)
Execute ==
    /\ Len(pool.execs) < MaxExecs
    /\ LET e == Len(pool.execs) + 1
           called == [pool EXCEPT !.execs = Append(@, NewExec("awaitInit")),
                                  !.last = PoolEv("execute", e, NoTask)]
       IN IF pool.initialized
          THEN pool' = ExecuteBody(called, e)
          ELSE IF pool.initializing
          THEN pool' = called
          ELSE /\ pool.ready = "none"
               /\ \E supported \in BOOLEAN :
                     pool' = IF supported
                             THEN [PoolInit(called, TRUE) EXCEPT !.initiator = e]
                             ELSE ExecuteBody(PoolInit(called, FALSE), e)
    /\ UNCHANGED <<managerVars, relay>>

\* the READY signals have all arrived (ok), or one of them timed out: init
\* ends, and the execute call that began it goes on
PoolInitSettles(ok) ==
    /\ pool.ready \in {"waiting", "dead"}
    /\ ok => pool.ready = "waiting"
    /\ LET ended == IF ok
                    THEN [pool EXCEPT !.initialized = TRUE, !.initializing = FALSE,
                                      !.ready = "none"]
                    ELSE [pool EXCEPT !.useFallback = TRUE, !.initialized = TRUE,
                                      !.initializing = FALSE, !.workers = 0,
                                      !.ready = "none"]
       IN pool' = [ExecuteBody(ended, pool.initiator) EXCEPT
                      !.initiator = 0,
                      !.last = PoolEv("ready", pool.initiator, NoTask)]
    /\ UNCHANGED <<managerVars, relay>>

\* waitForInit sees this.initialized: an execute call that found the pool
\* initializing goes on
ExecuteResumes(e) ==
    /\ e \in 1..Len(pool.execs)
    /\ e # pool.initiator
    /\ pool.execs[e].st = "awaitInit"
    /\ pool.initialized
    /\ pool' = [ExecuteBody(pool, e) EXCEPT !.last = PoolEv("resume", e, NoTask)]
    /\ UNCHANGED <<managerVars, relay>>

\* handleMessage(data, workerIndex)
HandleMessage(p, id, success) ==
    IF id \notin p.pendingTasks
    THEN p
    ELSE [p EXCEPT !.pendingTasks = @ \ {id},
                   !.execs = [e \in DOMAIN @ |->
                                 IF @[e].id = id THEN Settle(@[e], success)
                                 ELSE @[e]]]

\* a worker answers the task of call e, or answers it once more
WorkerMessage(e, success) ==
    /\ e \in 1..Len(pool.execs)
    /\ pool.execs[e].job \in {"running", "answered"}
    /\ pool' = [HandleMessage([pool EXCEPT !.execs[e].job = "answered"],
                              pool.execs[e].id, success)
                   EXCEPT !.last = PoolEv("message", e, pool.execs[e].id)]
    /\ UNCHANGED <<managerVars, relay>>

\* the worker raises an error on the task of call e and will not answer it:
\* handleError(error, workerIndex) writes to the log
WorkerError(e) ==
    /\ e \in 1..Len(pool.execs)
    /\ pool.execs[e].job = "running"
    /\ pool' = [pool EXCEPT !.execs[e].job = "failed",
                            !.last = PoolEv("error", e, pool.execs[e].id)]
    /\ UNCHANGED <<managerVars, relay>>

\* the fallback on the main thread ends
FallbackSettles(e, success) ==
    /\ e \in 1..Len(pool.execs)
    /\ pool.execs[e].st = "fallback"
    /\ pool' = [pool EXCEPT !.execs[e] = Settle(@, success),
                            !.last = PoolEv("fallback", e, NoTask)]
    /\ UNCHANGED <<managerVars, relay>>

\* terminate(): the workers are gone, and with them the jobs they held
Terminate ==
    /\ pool' = [pool EXCEPT
                   !.workers = 0,
                   !.pendingTasks = {},
                   !.initialized = FALSE,
                   !.initializing = FALSE,
                   !.ready = IF @ = "waiting" THEN "dead" ELSE @,
                   !.execs = [e \in DOMAIN @ |->
                                 IF @[e].job \in {"running", "answered"}
                                 THEN [@[e] EXCEPT !.job = "killed"]
                                 ELSE @[e]],
                   !.last = PoolEv("terminate", 0, NoTask)]
    /\ UNCHANGED <<managerVars, relay>>

\* ------------------------------------------------------ push relay manager
\* class RelayManager (src/js/relayManager.js): init and subscribe, with the
\* calls they await.  The browser's answers are fixed when the page loads:
\* whether push is supported, the vapid key is configured, the service
\* worker registers, a push subscription exists already, the user grants
\* the notification permission, the push manager subscribes and the relay
\* stream accepts the registration.
NoTag == <<>>
CalculateTag(walletAddress) == <<"tag", walletAddress>>

Answers == {"supported", "vapid", "sw", "existing", "permission", "push", "publish"}
Willing == Answers \ {"existing"}

RelayEv(op, ret) == [op |-> op, ret |-> ret]

\* the manager after its constructor; browser, pc, caller, inits, asked,
\* subscribes and last are not fields of the object: the browser's answers,
\* the await the call in flight is suspended at and who awaits it, the init
\* calls made, whether the permission was requested, the subscribe calls
\* made, whether the relays have the registration and the last step
NewRelay ==
    [initialized |-> FALSE, myTag |-> NoTag, swRegistration |-> FALSE,
     pushSubscription |-> FALSE, enabled |-> FALSE, reRegistrationTimer |-> FALSE,
     browser |-> Willing, pc |-> "idle", caller |-> "none", inits |-> 0,
     asked |-> FALSE, subscribes |-> 0, registered |-> FALSE, last |-> RelayEv("none", "none")]

\* init from the load of the subscribed channels to its return of true:
\* startReRegistrationTimer sets the timer when push is enabled
InitEnds(r) ==
    [r EXCEPT !.reRegistrationTimer = r.enabled /\ r.pushSubscription,
              !.initialized = TRUE, !.pc = "idle", !.caller = "none",
              !.last = RelayEv("init", "true")]

\* the call in flight returns ret to the code that awaits it: init goes on
\* after its await of subscribe, whatever subscribe returned; the host gets
\* the result of its own subscribe call; init for another account returns
\* true whatever registerWithRelays returned
Returns(r, ret) ==
    IF r.caller = "init" THEN InitEnds(r)
    ELSE IF r.caller = "account"
    THEN [r EXCEPT !.pc = "idle", !.caller = "none", !.last = RelayEv("init", "true")]
    ELSE [r EXCEPT !.pc = "idle", !.caller = "none", !.last = RelayEv("subscribe", ret)]

\* registerWithRelays() up to its await of the publish
RegisterWithRelays(r) ==
    IF ~r.pushSubscription \/ r.myTag = NoTag
    THEN Returns(r, IF r.pushSubscription THEN "subscription" ELSE "null")
    ELSE [r EXCEPT !.pc = "publish"]

\* subscribe(vapidPublicKey) called by who, up to its first await
Subscribe(r, who) ==
    LET called == [r EXCEPT !.caller = who, !.subscribes = @ + 1] IN
    IF ~called.initialized THEN Returns(called, "null")
    ELSE IF "vapid" \notin called.browser THEN Returns(called, "null")
    ELSE [called EXCEPT !.pc = "permission"]

\* init(walletAddress) up to its first await
RelayInit(walletAddress) ==
    /\ relay.pc = "idle"
    /\ relay.inits < MaxInits
    /\ LET newTag == CalculateTag(walletAddress)
           called == [relay EXCEPT !.inits = @ + 1]
       IN relay' =
            IF called.initialized /\ called.myTag = newTag
            THEN [called EXCEPT !.last = RelayEv("init", "true")]
            ELSE IF called.initialized
            THEN IF called.pushSubscription
                 THEN RegisterWithRelays([called EXCEPT !.myTag = newTag,
                                                        !.caller = "account"])
                 ELSE [called EXCEPT !.myTag = newTag,
                                     !.last = RelayEv("init", "true")]
            ELSE IF "supported" \notin called.browser
            THEN [called EXCEPT !.last = RelayEv("init", "false")]
            ELSE [called EXCEPT !.myTag = newTag, !.pc = "registerSW",
                                !.caller = "init",
                                !.last = RelayEv("init", "pending")]
    /\ UNCHANGED <<managerVars, pool>>

\* registerServiceWorker() settles
ServiceWorkerSettles ==
    /\ relay.pc = "registerSW"
    /\ relay' =
         IF "sw" \in relay.browser
         THEN [relay EXCEPT !.swRegistration = TRUE, !.pc = "getSubscription",
                            !.last = RelayEv("registerSW", "registration")]
         ELSE [relay EXCEPT !.swRegistration = FALSE, !.pc = "idle",
                            !.caller = "none", !.last = RelayEv("init", "false")]
    /\ UNCHANGED <<managerVars, pool>>

\* checkExistingSubscription() settles, and init goes on: without an
\* existing subscription it calls subscribe
GetSubscriptionSettles ==
    /\ relay.pc = "getSubscription"
    /\ relay' =
         IF "existing" \in relay.browser
         THEN InitEnds([relay EXCEPT !.pushSubscription = TRUE, !.enabled = TRUE])
         ELSE Subscribe([relay EXCEPT !.pushSubscription = FALSE], "init")
    /\ UNCHANGED <<managerVars, pool>>

\* the host (the settings page) calls subscribe()
RelaySubscribe ==
    /\ relay.pc = "idle"
    /\ relay.subscribes < MaxSubscribes
    /\ relay' = Subscribe(relay, "host")
    /\ UNCHANGED <<managerVars, pool>>

\* Notification.requestPermission() settles
PermissionSettles ==
    /\ relay.pc = "permission"
    /\ relay' =
         IF "permission" \in relay.browser
         THEN [relay EXCEPT !.asked = TRUE, !.pc = "pushSubscribe",
                            !.last = RelayEv("permission", "granted")]
         ELSE Returns([relay EXCEPT !.asked = TRUE], "null")
    /\ UNCHANGED <<managerVars, pool>>

\* pushManager.subscribe() settles
PushSubscribeSettles ==
    /\ relay.pc = "pushSubscribe"
    /\ relay' =
         IF "push" \in relay.browser
         THEN RegisterWithRelays([relay EXCEPT !.pushSubscription = TRUE,
                                               !.enabled = TRUE,
                                               !.last = RelayEv("push", "subscription")])
         ELSE Returns(relay, "null")
    /\ UNCHANGED <<managerVars, pool>>

\* the publish of the registration settles
PublishSettles ==
    /\ relay.pc = "publish"
    /\ relay' = Returns([relay EXCEPT !.registered = "publish" \in relay.browser],
                        "subscription")
    /\ UNCHANGED <<managerVars, pool>>

\* the state after construction, for a registry, its in-memory messages, the
\* persisted last-access times and a configuration
ConstructedManager(reg, mem, acc, cfg) ==
    /\ registry = reg
    /\ memLatest = mem
    /\ lastAccess = acc
    /\ config = cfg
    /\ live = {}
    /\ activeChannelId = None
    /\ heap = [o \in ObjIds |-> ZeroRec]
    /\ channelActivity = [c \in Channels |-> NoObj]
    /\ activityHandlers = <<>>
    /\ backgroundPoller = FALSE
    /\ intervals = 0
    /\ warmups = 0
    /\ pollIndex = 0
    /\ isPolling = FALSE
    /\ now = StartTime
    /\ calls = [k \in CallSlots |-> IdleCall]
    /\ cycles = [j \in CycleSlots |-> IdleCycle]
    /\ checks = [k \in CheckSlots |-> IdleCheck]
    /\ seen = [c \in Channels |-> NoFetch]
    /\ visited = {}
    /\ cyclesRun = 0
    /\ lastEvent = NoEvent

\* the program as the page loads it: the three components as constructed
Constructed(reg, mem, acc, cfg) ==
    /\ ConstructedManager(reg, mem, acc, cfg)
    /\ pool = NewPool
    /\ relay = NewRelay

Config(batch, minPoll) == [POLL_BATCH_SIZE |-> batch, MIN_POLL_INTERVAL |-> minPoll]
NoMemory == [c \in Channels |-> NoMsgs]
NoAccess == [c \in Channels |-> 0]

\* the state controller alone: the host's calls and the transport's answers
InitController ==
    \E mem \in [Channels -> {NoMsgs, 1}] :
        /\ mem["c"] = NoMsgs
        /\ Constructed(<<"a", "b">>, mem, NoAccess, Config(MaxBatch, StartTime))

NextController ==
    \/ \E s \in {"a", "b", None} : SetActiveChannel(s) /\ UNCHANGED restVars
    \/ ClearActiveChannel /\ UNCHANGED restVars
    \/ \E k \in CallSlots, ok \in BOOLEAN : UnsubscribeSettles(k, ok) /\ UNCHANGED restVars
    \/ \E k \in CallSlots, ok \in BOOLEAN : SubscribeSettles(k, ok) /\ UNCHANGED restVars
    \/ \E s \in {"a", "b"} : RemoveChannel(s) /\ UNCHANGED restVars
    \/ Cleanup /\ UNCHANGED restVars
    \/ Tick /\ UNCHANGED restVars

SpecController == InitController /\ [][NextController]_vars

\* the poller beside the state controller: timers, cycles, checks, the clock
Pages(maxLen, stamps) == UNION {[1..n -> stamps] : n \in 0..maxLen}

InitPoller ==
    \E b \in 1..MaxBatch :
        Constructed(<<"a", "b", "c">>, NoMemory, NoAccess, Config(b, 1))

NextPoller ==
    \/ StartBackgroundPoller /\ UNCHANGED restVars
    \/ IntervalFires /\ UNCHANGED restVars
    \/ WarmupFires /\ UNCHANGED restVars
    \/ \E j \in CycleSlots : StaggerFires(j) /\ UNCHANGED restVars
    \/ \E k \in CheckSlots, ok \in BOOLEAN, msgs \in {<<>>} :
          FetchSettles(k, ok, msgs) /\ UNCHANGED restVars
    \/ \E s \in {"a", "b"} : Quiescent /\ SetActiveChannel(s) /\ UNCHANGED restVars
    \/ Quiescent /\ ClearActiveChannel /\ UNCHANGED restVars
    \/ \E k \in CallSlots : UnsubscribeSettles(k, TRUE) /\ UNCHANGED restVars
    \/ \E k \in CallSlots : SubscribeSettles(k, TRUE) /\ UNCHANGED restVars
    \/ Tick /\ UNCHANGED restVars

SpecPoller == InitPoller /\ [][NextPoller]_vars

\* the state after start() created the records of the registry's channels,
\* setActive(active) completed (or no channel is active) and earlier poll
\* cycles left the cursor at p
Running(reg, active, p, cfg) ==
    /\ registry = reg
    /\ memLatest = NoMemory
    /\ lastAccess = NoAccess
    /\ config = cfg
    /\ live = {active} \ {None}
    /\ activeChannelId = active
    /\ heap = [o \in ObjIds |-> ZeroRec]
    /\ channelActivity = [c \in Channels |->
                            IF c \in Range(reg) THEN ChannelIndex(c) ELSE NoObj]
    /\ activityHandlers = <<>>
    /\ backgroundPoller = TRUE
    /\ intervals = 1
    /\ warmups = 0
    /\ pollIndex = p
    /\ isPolling = FALSE
    /\ now = StartTime
    /\ calls = [k \in CallSlots |-> IdleCall]
    /\ cycles = [j \in CycleSlots |-> IdleCycle]
    /\ checks = [k \in CheckSlots |-> IdleCheck]
    /\ seen = [c \in Channels |-> NoFetch]
    /\ visited = {}
    /\ cyclesRun = 0
    /\ lastEvent = NoEvent
    /\ pool = NewPool
    /\ relay = NewRelay

CeilDiv(n, b) == (n + b - 1) \div b

\* the cycles a window of the round-robin cursor takes for the background set
WindowLength == CeilDiv(Len(BackgroundChannels), config.POLL_BATCH_SIZE)

\* the history of a window: the cycles that selected a batch, and the
\* channels they selected
TrackWindow ==
    /\ IF lastEvent'.op = "poll" /\ lastEvent'.batch # <<>>
       THEN /\ visited' = visited \cup Range(lastEvent'.batch)
            /\ cyclesRun' = cyclesRun + 1
       ELSE UNCHANGED windowVars
    /\ UNCHANGED <<pool, relay>>

\* the round-robin cursor over a fixed background set: poll cycles alone,
\* from any cursor
InitRoundRobin ==
    \E reg \in {<<"a">>, <<"a", "b">>, <<"a", "b", "c">>, <<"c", "a", "b">>},
       active \in {None, "a", "b"}, p \in 0..MaxCursor, b \in 1..MaxBatch,
       m \in {0, 1} :
        Running(reg, active, p, Config(b, m))

NextRoundRobin ==
    \/ /\ BackgroundChannels # <<>> => cyclesRun < WindowLength
       /\ IntervalFires
       /\ TrackWindow
    \/ \E j \in CycleSlots : StaggerFires(j) /\ UNCHANGED restVars
    \/ \E k \in CheckSlots, ok \in BOOLEAN :
          FetchSettles(k, ok, <<>>) /\ UNCHANGED restVars
    \/ Tick /\ UNCHANGED restVars

SpecRoundRobin == InitRoundRobin /\ [][NextRoundRobin]_vars

\* the running poller while the host keeps changing the active channel, with
\* the timers firing and the transport answering: no cool-down
\* (MIN_POLL_INTERVAL = 0)
InitFair ==
    \E b \in 1..MaxBatch :
        Running(<<"a", "b", "c">>, None, 0, Config(b, 0))

FairInterval == IntervalFires /\ UNCHANGED restVars
FairStagger == \E j \in CycleSlots : StaggerFires(j) /\ UNCHANGED restVars
FairFetch ==
    \E k \in CheckSlots, ok \in BOOLEAN : FetchSettles(k, ok, <<>>) /\ UNCHANGED restVars
FairSetActive == Quiescent /\ SetActiveChannel("a") /\ UNCHANGED restVars
FairClearActive == Quiescent /\ ClearActiveChannel /\ UNCHANGED restVars
FairUnsubscribe == \E k \in CallSlots : UnsubscribeSettles(k, TRUE) /\ UNCHANGED restVars
FairSubscribe == \E k \in CallSlots : SubscribeSettles(k, TRUE) /\ UNCHANGED restVars

NextFair ==
    \/ FairInterval
    \/ FairStagger
    \/ FairFetch
    \/ FairSetActive
    \/ FairClearActive
    \/ FairUnsubscribe
    \/ FairSubscribe

\* the interval timer keeps firing, a stagger timeout fires, and the
\* transport answers every request
FairSpec ==
    /\ InitFair
    /\ [][NextFair]_vars
    /\ WF_vars(FairInterval)
    /\ WF_vars(FairStagger)
    /\ WF_vars(FairFetch)
    /\ WF_vars(FairUnsubscribe)
    /\ WF_vars(FairSubscribe)

\* activity checks on demand, one after the other, with any page of history
\* the transport may return, beside clearUnread and an observer
InitActivity == Constructed(<<"a">>, NoMemory, NoAccess, Config(MaxBatch, 1))

NextActivity ==
    \/ FreeChecks = CheckSlots /\ ForcePollChannel("a") /\ UNCHANGED restVars
    \/ \E k \in CheckSlots, ok \in BOOLEAN, msgs \in Pages(MaxMsgs, Timestamps) :
          FetchSettles(k, ok, msgs) /\ UNCHANGED restVars
    \/ ClearUnreadCount("a") /\ UNCHANGED restVars
    \/ Len(activityHandlers) < MaxHandlers /\ OnActivity("h1") /\ UNCHANGED restVars
    \/ Tick /\ UNCHANGED restVars

SpecActivity == InitActivity /\ [][NextActivity]_vars

\* activity checks of one channel that overlap: forcePoll calls whose fetches
\* settle in any order, with short pages, beside clearUnread and removeChannel
InitOverlap == Constructed(<<"a">>, NoMemory, NoAccess, Config(MaxBatch, 1))

NextOverlap ==
    \/ ForcePollChannel("a") /\ UNCHANGED restVars
    \/ \E k \in CheckSlots, ok \in BOOLEAN, msgs \in Pages(1, 1..2) :
          FetchSettles(k, ok, msgs) /\ UNCHANGED restVars
    \/ ClearUnreadCount("a") /\ UNCHANGED restVars
    \/ RemoveChannel("a") /\ UNCHANGED restVars
    \/ Len(activityHandlers) < MaxHandlers /\ OnActivity("h1") /\ UNCHANGED restVars
    \/ Tick /\ UNCHANGED restVars

SpecOverlap == InitOverlap /\ [][NextOverlap]_vars

\* forcePoll beside the running poller and the state controller
InitForce ==
    \E active \in {None, "a"}, b \in 1..MaxBatch :
        Running(<<"a", "b">>, active, 0, Config(b, 1))

NextForce ==
    \/ \E s \in Channels : ForcePollChannel(s) /\ UNCHANGED restVars
    \/ IntervalFires /\ UNCHANGED restVars
    \/ \E j \in CycleSlots : StaggerFires(j) /\ UNCHANGED restVars
    \/ \E k \in CheckSlots, ok \in BOOLEAN :
          FetchSettles(k, ok, <<>>) /\ UNCHANGED restVars
    \/ Quiescent /\ SetActiveChannel("a") /\ UNCHANGED restVars
    \/ Quiescent /\ ClearActiveChannel /\ UNCHANGED restVars
    \/ \E k \in CallSlots : UnsubscribeSettles(k, TRUE) /\ UNCHANGED restVars
    \/ \E k \in CallSlots : SubscribeSettles(k, TRUE) /\ UNCHANGED restVars

SpecForce == InitForce /\ [][NextForce]_vars

\* the poller's lifecycle: start, stop and cleanup at any moment, beside the
\* timers, the cycles and a forcePoll
InitLifecycle ==
    \E b \in 1..MaxBatch :
        Constructed(<<"a", "b">>, NoMemory, NoAccess, Config(b, 0))

NextLifecycle ==
    \/ StartBackgroundPoller /\ UNCHANGED restVars
    \/ StopBackgroundPoller /\ UNCHANGED restVars
    \/ Cleanup /\ UNCHANGED restVars
    \/ IntervalFires /\ UNCHANGED restVars
    \/ WarmupFires /\ UNCHANGED restVars
    \/ \E j \in CycleSlots : StaggerFires(j) /\ UNCHANGED restVars
    \/ \E k \in CheckSlots, ok \in BOOLEAN :
          FetchSettles(k, ok, <<>>) /\ UNCHANGED restVars
    \/ ForcePollChannel("a") /\ UNCHANGED restVars

SpecLifecycle == InitLifecycle /\ [][NextLifecycle]_vars

\* poll cycles on their own, from a running poller with or without
\* background channels: every stagger timeout fires and the transport answers
\* every fetch
InitCycle ==
    \E reg \in {<<"a">>, <<"a", "b">>}, active \in {None, "a"}, b \in 1..MaxBatch :
        Running(reg, active, 0, Config(b, 1))

CycleRegistryRaises ==
    intervals > 0 /\ PollRegistryRaises /\ UNCHANGED <<timerVars, restVars>>

NextCycle ==
    \/ FairInterval
    \/ CycleRegistryRaises
    \/ FairStagger
    \/ FairFetch
    \/ Tick /\ UNCHANGED restVars

FairCycleSpec ==
    /\ InitCycle
    /\ [][NextCycle]_vars
    /\ WF_vars(FairStagger)
    /\ WF_vars(FairFetch)

\* teardown of a manager in use: a channel is active, an observer is
\* registered and the poller runs cycles of one channel when cleanup is called
InitTeardown == Constructed(<<"a", "b">>, NoMemory, NoAccess, Config(1, 0))

NextTeardown ==
    \/ StartBackgroundPoller /\ UNCHANGED restVars
    \/ IntervalFires /\ UNCHANGED restVars
    \/ WarmupFires /\ UNCHANGED restVars
    \/ \E k \in CheckSlots, ok \in BOOLEAN :
          FetchSettles(k, ok, <<>>) /\ UNCHANGED restVars
    \/ Quiescent /\ SetActiveChannel("a") /\ UNCHANGED restVars
    \/ \E k \in CallSlots : SubscribeSettles(k, TRUE) /\ UNCHANGED restVars
    \/ Len(activityHandlers) < MaxHandlers /\ OnActivity("h1") /\ UNCHANGED restVars
    \/ Cleanup /\ UNCHANGED restVars

SpecTeardown == InitTeardown /\ [][NextTeardown]_vars

\* the unread counts of two tracked channels: checks on demand, one after
\* the other, and clearUnread of a tracked or an unknown channel
InitUnread == Constructed(<<"a", "b">>, NoMemory, NoAccess, Config(MaxBatch, 1))

NextUnread ==
    \/ \E s \in {"a", "b"} :
          FreeChecks = CheckSlots /\ ForcePollChannel(s) /\ UNCHANGED restVars
    \/ \E k \in CheckSlots, ok \in BOOLEAN, msgs \in Pages(1, 1..2) :
          FetchSettles(k, ok, msgs) /\ UNCHANGED restVars
    \/ \E s \in Channels : ClearUnreadCount(s) /\ UNCHANGED restVars

SpecUnread == InitUnread /\ [][NextUnread]_vars

\* the observer list: handlers registered (also twice), removed and notified
\* by checks on demand; the handler "h2" throws.  The host also activates a
\* channel, and calls setActive without a channel id and onActivity with a
\* value that is not a function
InitObservers == Constructed(<<"a">>, NoMemory, NoAccess, Config(MaxBatch, 1))

NextObservers ==
    \/ \E h \in Handlers \cup {NotAFunction} :
          Len(activityHandlers) < MaxObservers /\ OnActivity(h) /\ UNCHANGED restVars
    \/ \E h \in Handlers : OffActivity(h) /\ UNCHANGED restVars
    \/ FreeChecks = CheckSlots /\ ForcePollChannel("a") /\ UNCHANGED restVars
    \/ \E k \in CheckSlots, ok \in BOOLEAN, msgs \in Pages(1, 1..2) :
          FetchSettles(k, ok, msgs) /\ UNCHANGED restVars
    \/ Quiescent /\ SetActiveChannel("a") /\ UNCHANGED restVars
    \/ SetActiveChannel(None) /\ UNCHANGED restVars
    \/ \E k \in CallSlots : SubscribeSettles(k, TRUE) /\ UNCHANGED restVars

SpecObservers == InitObservers /\ [][NextObservers]_vars

\* the poller started, stopped and started again while records accumulate
\* unread counts and channels are removed, with persisted last-access times
InitRestart ==
    \E acc \in [Channels -> 0..1] :
        /\ acc["a"] = 0 /\ acc["c"] = 0
        /\ Constructed(<<"a", "b">>, NoMemory, acc, Config(1, 0))

NextRestart ==
    \/ StartBackgroundPoller /\ UNCHANGED restVars
    \/ StopBackgroundPoller /\ UNCHANGED restVars
    \/ WarmupFires /\ UNCHANGED restVars
    \/ FreeChecks = CheckSlots /\ ForcePollChannel("a") /\ UNCHANGED restVars
    \/ \E k \in CheckSlots, ok \in BOOLEAN, msgs \in Pages(1, 1..1) :
          FetchSettles(k, ok, msgs) /\ UNCHANGED restVars
    \/ RemoveChannel("b") /\ UNCHANGED restVars

SpecRestart == InitRestart /\ [][NextRestart]_vars

\* the relay manager in a browser of any disposition: the host calls init
\* and subscribe one at a time
InitRelay ==
    \E b \in SUBSET Answers :
        /\ ConstructedManager(<<"a">>, NoMemory, NoAccess, Config(1, 0))
        /\ pool = NewPool
        /\ relay = [NewRelay EXCEPT !.browser = b]

NextRelay ==
    \/ \E w \in {"w1", "w2"} : RelayInit(w)
    \/ ServiceWorkerSettles
    \/ GetSubscriptionSettles
    \/ RelaySubscribe
    \/ PermissionSettles
    \/ PushSubscribeSettles
    \/ PublishSettles

SpecRelay == InitRelay /\ [][NextRelay]_vars

\* the crypto worker pool: execute calls, the workers' answers and errors,
\* and terminate at any time.  The workers answer the tasks they hold, the
\* fallback ends, init settles and waitForInit polls.
WorkerAnswers(e) ==
    \E success \in BOOLEAN :
        e \in 1..Len(pool.execs) /\ pool.execs[e].job = "running" /\ WorkerMessage(e, success)

NextPool ==
    \/ Execute
    \/ \E ok \in BOOLEAN : PoolInitSettles(ok)
    \/ \E e \in 1..MaxExecs : ExecuteResumes(e)
    \/ \E e \in 1..MaxExecs, success \in BOOLEAN : WorkerMessage(e, success)
    \/ \E e \in 1..MaxExecs : WorkerError(e)
    \/ \E e \in 1..MaxExecs, success \in BOOLEAN : FallbackSettles(e, success)
    \/ Terminate

SpecPool ==
    /\ Constructed(<<"a">>, NoMemory, NoAccess, Config(1, 0))
    /\ [][NextPool]_vars
    /\ WF_vars(\E ok \in BOOLEAN : PoolInitSettles(ok))
    /\ \A e \in 1..MaxExecs : WF_vars(ExecuteResumes(e))
    /\ \A e \in 1..MaxExecs : WF_vars(WorkerAnswers(e))
    /\ \A e \in 1..MaxExecs :
          WF_vars(\E success \in BOOLEAN : FallbackSettles(e, success))

\* ------------------------------------------------------------------ claims
\* C1: at most one channel holds a live full subscription at any time,
\* whatever the interleaving of setActive, clearActive, removeChannel and
\* cleanup and whatever the transport answers.
C1_AtMostOneLive == Cardinality(live) <= 1

\* C2: whenever no setActive or clearActive call is in flight, a channel
\* holds a live full subscription if and only if it is the active pointer.
C2_LiveIffActive ==
    Quiescent => \A c \in Channels : (c \in live <=> c = activeChannelId)

\* C3: a setActive(B) call that finds the pointer at A # B issues exactly one
\* unsubscribe(A), and that unsubscribe has settled when the call requests
\* subscribe(B).
C3_UnsubscribeBeforeSubscribe ==
    \A k \in CallSlots :
        (calls[k].op = "setActive" /\ calls[k].pc = "subscribe" /\ calls[k].prev # None)
            => /\ calls[k].prev # calls[k].id
               /\ calls[k].unsubs = 1
               /\ calls[k].settled

\* a setActive("b") call that found "a" active has requested subscribe("b")
\* after unsubscribe("a") succeeded
C3_Witness ==
    \E k \in CallSlots :
        /\ calls[k].op = "setActive" /\ calls[k].pc = "subscribe"
        /\ calls[k].prev = "a" /\ calls[k].id = "b"
        /\ "a" \notin live
        /\ lastEvent.op = "unsubscribed"
        /\ lastEvent.req = <<<<"subscribe", "b">>>>

\* C4: setActive(X) called again right after setActive(X), from any state,
\* is a no-op: the second call issues no transport request, starts nothing
\* that will issue one, and changes neither the pointer nor any activity
\* record, so the two calls make one subscribe(X) call.
C4_SetActiveIdempotent ==
    [][(/\ lastEvent.op = "setActive" /\ lastEvent.id # None
        /\ lastEvent'.op = "setActive" /\ lastEvent'.id = lastEvent.id)
        => (/\ lastEvent'.req = <<>>
            /\ calls' = calls
            /\ activeChannelId' = activeChannelId
            /\ channelActivity' = channelActivity
            /\ heap' = heap)]_vars

\* C5: the batch a poll cycle selects never contains the channel that is the
\* active pointer when the batch is selected.
C5_BatchExcludesActive ==
    (lastEvent.op = "poll" /\ lastEvent.batch # <<>>)
        => activeChannelId \notin Range(lastEvent.batch)

\* a cycle selected a batch that wraps around the channel "b", which is active
C5_Witness ==
    /\ lastEvent.op = "poll"
    /\ activeChannelId = "b"
    /\ lastEvent.batch = <<"c", "a">>

\* C6: a channel that stays tracked and is never active is eventually
\* checked, provided poll cycles keep selecting batches (there is no
\* cool-down under FairSpec).
C6_NoStarvation ==
    \A c \in Channels :
        ([](InRegistry(c) /\ activeChannelId # c)
            /\ []<>(lastEvent.op = "poll" /\ lastEvent.batch # <<>>))
        => <>(lastEvent.op \in {"poll", "stagger"} /\ lastEvent.fetch = c)

\* C7: for a fixed background set of size N and a batch size B, from any
\* cursor, ceil(N/B) consecutive poll cycles select every background channel.
C7_WindowCoversAll ==
    (BackgroundChannels # <<>> /\ cyclesRun = WindowLength)
        => Range(BackgroundChannels) \subseteq visited

\* two cycles of batch size 2 covered three background channels from a
\* cursor beyond the middle
C7_Witness ==
    /\ cyclesRun = 2
    /\ config.POLL_BATCH_SIZE = 2
    /\ Len(BackgroundChannels) = 3
    /\ visited = {"a", "b", "c"}
    /\ lastEvent.op = "poll"
    /\ lastEvent.batch = <<"b", "c">>

\* C8: a channel of the batch whose lastChecked is less than
\* MIN_POLL_INTERVAL before the moment its turn comes is skipped: no fetch is
\* issued for it and its record is left as it is, at any position.
C8_CooldownSkips ==
    [][lastEvent'.op \in {"poll", "stagger"} =>
        \A p \in 1..Len(lastEvent'.batch) :
            LET c == lastEvent'.batch[p]
                lastChecked == IF channelActivity[c] # NoObj
                               THEN heap[channelActivity[c]].lastChecked ELSE 0
            IN (/\ lastEvent'.from <= p /\ p <= lastEvent'.upto
                /\ now - lastChecked < config.MIN_POLL_INTERVAL)
               => /\ lastEvent'.fetch # c
                  /\ {k \in CheckSlots : checks'[k].chan = c}
                        = {k \in CheckSlots : checks[k].chan = c}
                  /\ channelActivity'[c] = channelActivity[c]
                  /\ (IF channelActivity'[c] # NoObj
                      THEN heap'[channelActivity'[c]] ELSE ZeroRec) = Before(c)]_vars

\* after the stagger delay the second channel of the batch was in its
\* cool-down and the cycle ended without a fetch for it
C8_Witness ==
    /\ lastEvent.op = "stagger"
    /\ lastEvent.from = 2 /\ lastEvent.upto = 3
    /\ Len(lastEvent.batch) = 2
    /\ lastEvent.fetch = None
    /\ HasActivity(lastEvent.batch[2])
    /\ now - Activity(lastEvent.batch[2]).lastChecked < config.MIN_POLL_INTERVAL

SetMax(S) == CHOOSE x \in S : \A y \in S : y <= x

\* C9: a successful check of a channel whose record has lastMessageTime T and
\* unreadCount U, with the fetched timestamps M, leaves unreadCount = U + the
\* number of entries of M newer than T, lastMessageTime = max({T} \cup M) and
\* lastChecked = now, and calls every registered observer once with the new
\* record exactly when some entry is newer than T.
C9_CheckUpdatesRecord ==
    (lastEvent.op = "check" /\ ~lastEvent.raised /\ lastEvent.had /\ lastEvent.same)
        => LET c == lastEvent.id
               T == lastEvent.before.lastMessageTime
               U == lastEvent.before.unreadCount
               M == lastEvent.msgs
               newer == {i \in 1..Len(M) : M[i] > T}
           IN /\ HasActivity(c)
              /\ Activity(c) = Rec(SetMax({T} \cup Range(M)), U + Cardinality(newer), now)
              /\ lastEvent.notifs =
                    IF newer # {}
                    THEN [i \in 1..Len(activityHandlers) |->
                            <<activityHandlers[i], c, Activity(c)>>]
                    ELSE <<>>

\* the scenario of the specification, scaled: lastMessageTime 1, a page with
\* one older and two newer messages, one observer
C9_Witness ==
    /\ lastEvent.op = "check" /\ ~lastEvent.raised /\ lastEvent.had /\ lastEvent.same
    /\ lastEvent.before.lastMessageTime = 1
    /\ lastEvent.msgs = <<0, 2, 3>>
    /\ Activity("a").unreadCount = lastEvent.before.unreadCount + 2
    /\ Activity("a").lastMessageTime = 3
    /\ Len(lastEvent.notifs) = 1

\* C10: a check that follows a completed check of the same channel and
\* fetches the same page leaves unreadCount and lastMessageTime as the first
\* check left them and notifies nobody.
C10_CheckIdempotent ==
    (lastEvent.op = "check" /\ ~lastEvent.raised /\ lastEvent.repeat /\ lastEvent.same)
        => /\ lastEvent.notifs = <<>>
           /\ Activity(lastEvent.id).unreadCount = lastEvent.before.unreadCount
           /\ Activity(lastEvent.id).lastMessageTime = lastEvent.before.lastMessageTime

\* the second of two checks that fetched the same page with new messages
C10_Witness ==
    /\ lastEvent.op = "check" /\ ~lastEvent.raised /\ lastEvent.repeat /\ lastEvent.same
    /\ lastEvent.msgs = <<2, 3>>
    /\ lastEvent.before.unreadCount = 2
    /\ activityHandlers # <<>>

\* C11: a fetch that fails for a channel of a poll cycle does not end the
\* cycle: the cycle goes on to its stagger delay when channels are left in
\* the batch, and otherwise ends with the guard released; and the step after
\* a stagger delay fetches the next channel of the batch that is not in its
\* cool-down, or ends the cycle with the guard released when there is none.
C11_FailedFetchDoesNotAbort ==
    [][/\ \A k \in CheckSlots :
            (/\ lastEvent'.op = "check" /\ lastEvent'.raised
             /\ checks[k].chan # None /\ checks'[k].chan = None
             /\ checks[k].owner > 0)
            => LET j == checks[k].owner IN
               IF cycles[j].i < Len(cycles[j].batch)
               THEN cycles'[j] = [cycles[j] EXCEPT !.pc = "stagger"]
               ELSE cycles'[j] = IdleCycle /\ ~isPolling'
       /\ \A j \in CycleSlots :
            (lastEvent'.op = "stagger" /\ cycles[j].pc = "stagger" /\ cycles'[j] # cycles[j])
            => LET batch == cycles[j].batch
                   due == {p \in (cycles[j].i + 1)..Len(batch) : ~InCooldown(batch[p])}
               IN IF due = {}
                  THEN lastEvent'.fetch = None /\ cycles'[j] = IdleCycle /\ ~isPolling'
                  ELSE /\ lastEvent'.fetch = batch[SetMin(due)]
                       /\ cycles'[j].pc = "fetch"
                       /\ \E k \in CheckSlots :
                             checks[k].chan = None /\ checks'[k].chan = batch[SetMin(due)]
      ]_vars

\* the first check of a batch of two failed (its channel has no completed
\* check, and lastChecked = now), and after the stagger delay the second
\* channel is fetched
C11_Witness ==
    /\ lastEvent.op = "stagger"
    /\ Len(lastEvent.batch) = 2
    /\ lastEvent.fetch = lastEvent.batch[2]
    /\ seen[lastEvent.batch[1]] = NoFetch
    /\ HasActivity(lastEvent.batch[1])
    /\ Activity(lastEvent.batch[1]).lastChecked = now
    /\ isPolling

\* C12: every activity check that settles, resolved or rejected, leaves the
\* channel's record with lastChecked = now; a rejected fetch leaves the
\* record's unreadCount and lastMessageTime as they were before the step,
\* notifies nobody and raises to the caller of the check.
C12_AttemptSetsLastChecked ==
    lastEvent.op = "check"
        => /\ HasActivity(lastEvent.id)
           /\ Activity(lastEvent.id).lastChecked = now
           /\ lastEvent.raised
                => /\ Activity(lastEvent.id).unreadCount = lastEvent.before.unreadCount
                   /\ Activity(lastEvent.id).lastMessageTime
                         = lastEvent.before.lastMessageTime
                   /\ lastEvent.notifs = <<>>

\* C13: when the subscribe request of a setActive(X) call is rejected, the
\* call ends by raising to its caller and the step changes nothing else: the
\* pointer stays where it was (at X, which the call set before the request,
\* unless a later call moved it), and no record or subscription changes.
C13_SubscribeFailureKeepsPointer ==
    [][\A k \in CallSlots :
         (/\ calls[k].op = "setActive" /\ calls[k].pc = "subscribe"
          /\ calls'[k] = IdleCall
          /\ lastEvent'.op = "subscribed" /\ lastEvent'.raised)
         => /\ lastEvent'.id = calls[k].id
            /\ activeChannelId' = activeChannelId
            /\ live' = live
            /\ channelActivity' = channelActivity /\ heap' = heap
      ]_vars

\* the subscribe of setActive("b") was rejected: the call has ended, the
\* pointer is "b" and nothing is subscribed
C13_Witness ==
    /\ lastEvent.op = "subscribed" /\ lastEvent.id = "b" /\ lastEvent.raised
    /\ activeChannelId = "b"
    /\ live = {}
    /\ Quiescent

\* C14: a rejected unsubscribe during a downgrade is swallowed: the
\* setActive(B) call that awaited it sets the pointer to B and requests
\* subscribe(B), a clearActive call sets the pointer to none and ends, and
\* the channel whose unsubscribe failed is then a background channel (when
\* the registry holds it).
C14_UnsubscribeFailureSwallowed ==
    [][\A k \in CallSlots :
         (/\ calls[k].pc = "unsubscribe" /\ calls'[k] # calls[k]
          /\ lastEvent'.op = "unsubscribed" /\ lastEvent'.raised)
         => /\ lastEvent'.id = calls[k].target
            /\ IF calls[k].op = "setActive"
               THEN /\ activeChannelId' = calls[k].id
                    /\ calls'[k].pc = "subscribe"
                    /\ lastEvent'.req = <<<<"subscribe", calls[k].id>>>>
               ELSE /\ activeChannelId' = None
                    /\ calls'[k] = IdleCall
                    /\ lastEvent'.req = <<>>
            /\ activeChannelId' # calls[k].target
            /\ InRegistry(calls[k].target)
                  => calls[k].target \in Range(BackgroundChannels')
      ]_vars

\* setActive("b") went on after unsubscribe("a") was rejected: the pointer is
\* "b", subscribe("b") is requested, and "a", still subscribed, is a
\* background channel
C14_Witness ==
    /\ lastEvent.op = "unsubscribed" /\ lastEvent.id = "a" /\ lastEvent.raised
    /\ lastEvent.req = <<<<"subscribe", "b">>>>
    /\ activeChannelId = "b"
    /\ "a" \in live
    /\ "a" \in Range(BackgroundChannels)

\* C15: when a downgrade of the active channel X has requested
\* unsubscribe(X), X has a record with unreadCount = 0 and lastChecked = now,
\* and with lastMessageTime = the timestamp of the latest in-memory message
\* when the registry holds one, whether or not it holds any.
C15_DowngradeResetsRecord ==
    \A x \in Channels :
        (/\ lastEvent.op \in {"setActive", "clearActive"}
         /\ lastEvent.req = <<<<"unsubscribe", x>>>>)
        => /\ HasActivity(x)
           /\ Activity(x).unreadCount = 0
           /\ Activity(x).lastChecked = now
           /\ (InRegistry(x) /\ memLatest[x] > 0)
                 => Activity(x).lastMessageTime = memLatest[x]

\* C16: forcePoll(X) while X is the active channel is a no-op: it issues no
\* fetch, notifies nobody, and leaves the records, the checks in flight, the
\* pointer, the cursor, the guard and the poll cycles as they are.
C16_ForcePollActiveNoOp ==
    [][(/\ lastEvent'.op = "forcePoll"
        /\ activeChannelId # None /\ lastEvent'.id = activeChannelId)
        => /\ lastEvent'.fetch = None
           /\ lastEvent'.notifs = <<>>
           /\ heap' = heap /\ channelActivity' = channelActivity
           /\ checks' = checks
           /\ activeChannelId' = activeChannelId
           /\ pollIndex' = pollIndex /\ isPolling' = isPolling
           /\ cycles' = cycles
      ]_vars

\* forcePoll("a") returned while "a" is the active, subscribed channel
C16_Witness ==
    /\ lastEvent.op = "forcePoll" /\ lastEvent.id = "a"
    /\ activeChannelId = "a" /\ "a" \in live
    /\ lastEvent.fetch = None

\* C17: forcePoll never changes the cursor, the guard or a poll cycle,
\* neither when it is called nor when its check settles; for a tracked
\* channel that is not active it starts its check whatever the guard and the
\* channel's cool-down are.
C17_ForcePollFrame ==
    [][/\ lastEvent'.op = "forcePoll"
            => /\ pollIndex' = pollIndex /\ isPolling' = isPolling /\ cycles' = cycles
               /\ (InRegistry(lastEvent'.id) /\ lastEvent'.id # activeChannelId)
                     => /\ lastEvent'.fetch = lastEvent'.id
                        /\ \E k \in CheckSlots :
                              /\ checks[k].chan = None
                              /\ checks'[k].chan = lastEvent'.id
                              /\ checks'[k].owner = 0
       /\ \A k \in CheckSlots :
            (checks[k].chan # None /\ checks[k].owner = 0 /\ checks'[k].chan = None
               /\ lastEvent'.op = "check")
            => pollIndex' = pollIndex /\ isPolling' = isPolling /\ cycles' = cycles
      ]_vars

\* forcePoll("b") started its fetch while a poll cycle is awaiting a fetch
\* and "b" is in its cool-down
C17_Witness ==
    /\ lastEvent.op = "forcePoll" /\ lastEvent.id = "b" /\ lastEvent.fetch = "b"
    /\ isPolling
    /\ \E j \in CycleSlots : cycles[j].pc = "fetch"
    /\ InCooldown("b")

\* C18: removeChannel(X) deletes the record of X and leaves the other
\* records; when X is the active channel the pointer becomes none and no
\* unsubscribe (no transport request at all) is issued, and otherwise the
\* pointer is unchanged.
C18_RemoveChannelFrame ==
    [][lastEvent'.op = "removeChannel"
        => LET x == lastEvent'.id IN
           /\ channelActivity'[x] = NoObj
           /\ \A c \in Channels \ {x} :
                 /\ (channelActivity'[c] = NoObj) = (channelActivity[c] = NoObj)
                 /\ channelActivity[c] # NoObj
                       => heap'[channelActivity'[c]] = heap[channelActivity[c]]
           /\ activeChannelId' = IF activeChannelId = x THEN None ELSE activeChannelId
           /\ lastEvent'.req = <<>>
           /\ calls' = calls
           /\ live' = live
      ]_vars

\* removeChannel("a") of the active, subscribed channel "a": the pointer is
\* none, "a" has no record and is still subscribed
C18_Witness ==
    /\ lastEvent.op = "removeChannel" /\ lastEvent.id = "a"
    /\ activeChannelId = None
    /\ ~HasActivity("a")
    /\ HasActivity("b")
    /\ "a" \in live
    /\ Quiescent

\* poll cycles that have begun and not ended
CyclesInProgress == {j \in CycleSlots : cycles[j].pc # "idle"}

\* C19: at most one poll cycle is in progress at any time, and a trigger
\* (interval tick or warm-up run) that arrives while a cycle is in progress
\* is skipped entirely: it issues no fetch, leaves the cursor and the cycle
\* in progress as they are, and starts nothing.
C19_OneCycleAtATime ==
    [][/\ Cardinality(CyclesInProgress') <= 1
       /\ (lastEvent'.op \in {"poll", "pollSkipped"} /\ CyclesInProgress # {})
            => /\ lastEvent'.op = "pollSkipped"
               /\ lastEvent'.fetch = None
               /\ pollIndex' = pollIndex
               /\ cycles' = cycles
               /\ checks' = checks
      ]_vars

\* C20: every poll cycle that begins ends with the guard released: a cycle
\* that ends in its first step (empty background set, a registry call that
\* raises, a batch in cool-down) leaves the guard released, a cycle that
\* awaits a fetch or a stagger delay eventually ends with the guard
\* released, whether its checks succeed or fail, and so a guard that is
\* taken is eventually released.
C20_CycleEndsGuardReleased ==
    /\ []((lastEvent.op = "poll" /\ lastEvent.fetch = None) => ~isPolling)
    /\ \A j \in CycleSlots :
          (cycles[j].pc # "idle") ~> (cycles[j].pc = "idle" /\ ~isPolling)
    /\ isPolling ~> ~isPolling

\* a cycle of two channels ended, with the guard released, when the check of
\* its last channel failed
C20_Witness ==
    /\ lastEvent.op = "check" /\ lastEvent.raised
    /\ lastEvent.id = "b"
    /\ ~isPolling
    /\ CyclesInProgress = {}
    /\ Activity("a").lastChecked > 0

\* C21: at most one interval timer exists after any sequence of start, stop
\* and cleanup calls, and it exists exactly while backgroundPoller holds it;
\* stop and cleanup leave none; and a start call while the poller is running
\* changes nothing.
C21_StartIdempotent ==
    /\ [](/\ intervals <= 1
          /\ backgroundPoller <=> intervals = 1
          /\ lastEvent.op \in {"stop", "cleanup"} => intervals = 0)
    /\ [][(lastEvent'.op = "start" /\ backgroundPoller)
           => /\ UNCHANGED <<timerVars, heap, channelActivity, checks>>
              /\ UNCHANGED startRest
         ]_vars

\* a start call returned while the poller was running, after the warm-up
\* run of the first start: there is one interval timer and no warm-up pending
C21_Witness ==
    /\ lastEvent.op = "start"
    /\ backgroundPoller /\ intervals = 1
    /\ warmups = 0

\* C22: when cleanup returns, no interval timer exists and backgroundPoller
\* is null, the active pointer is none, no channel has an activity record,
\* no observer is registered, the cursor is 0 and the guard is released.
C22_CleanupResets ==
    lastEvent.op = "cleanup"
        => /\ intervals = 0 /\ ~backgroundPoller
           /\ activeChannelId = None
           /\ \A c \in Channels : ~HasActivity(c)
           /\ activityHandlers = <<>>
           /\ pollIndex = 0
           /\ ~isPolling

\* cleanup returned while "a" was subscribed as the active channel and a
\* poll cycle was awaiting the fetch of "b"
C22_Witness ==
    /\ lastEvent.op = "cleanup"
    /\ "a" \in live
    /\ \E j \in CycleSlots : cycles[j].pc = "fetch" /\ cycles[j].batch = <<"b">>

\* C23: clearActive with an active channel X downgrades X (it requests
\* unsubscribe(X)) and, when it ends, leaves the pointer none; a clearActive
\* with no active channel, and a clearActive called right after a
\* clearActive, issue no transport request and change no state.
C23_ClearActiveIdempotent ==
    [][/\ (lastEvent'.op = "clearActive" /\ activeChannelId # None
             /\ lastEvent.op # "clearActive")
            => lastEvent'.req = <<<<"unsubscribe", activeChannelId>>>>
       /\ \A k \in CallSlots :
            (calls[k].op = "clearActive" /\ calls'[k] = IdleCall)
            => activeChannelId' = None
       /\ (lastEvent'.op = "clearActive"
             /\ (activeChannelId = None \/ lastEvent.op = "clearActive"))
            => /\ lastEvent'.req = <<>>
               /\ calls' = calls
               /\ activeChannelId' = activeChannelId
               /\ live' = live
               /\ channelActivity' = channelActivity /\ heap' = heap
      ]_vars

\* C24: clearUnread(X) leaves the map of records as it is (it creates and
\* deletes none); when X has a record, the record keeps its lastMessageTime
\* and lastChecked and has unreadCount 0; every other channel's record is
\* unchanged; and when X has no record nothing changes.
C24_ClearUnreadFrame ==
    [][lastEvent'.op = "clearUnread"
        => LET x == lastEvent'.id IN
           /\ channelActivity' = channelActivity
           /\ checks' = checks
           /\ HasActivity(x)
                 => heap'[channelActivity[x]] =
                       [heap[channelActivity[x]] EXCEPT !.unreadCount = 0]
           /\ \A c \in Channels \ {x} :
                 HasActivity(c) => heap'[channelActivity[c]] = heap[channelActivity[c]]
           /\ ~HasActivity(x) => heap' = heap
      ]_vars

\* clearUnread("a") set the unread count of "a" from a positive value to 0:
\* its lastMessageTime is kept, and "b" still has unread messages
C24_Witness ==
    /\ lastEvent.op = "clearUnread" /\ lastEvent.id = "a" /\ lastEvent.had
    /\ lastEvent.before.unreadCount > 0
    /\ Activity("a").unreadCount = 0
    /\ Activity("a").lastMessageTime = lastEvent.before.lastMessageTime
    /\ Activity("a").lastMessageTime > 0
    /\ HasActivity("b") /\ Activity("b").unreadCount > 0

\* C25: a check that finds new messages calls every registered handler, once
\* per registration and in registration order, with the channel and the
\* record the check stored, also the handlers registered after a handler
\* that throws, and the stored record is the updated one; offActivity(h)
\* removes the registrations of h and keeps the others in order.
C25_ObserversNotifiedInOrder ==
    [][/\ (lastEvent'.op = "check" /\ lastEvent'.notifs # <<>>)
            => /\ activityHandlers' = activityHandlers
               /\ Len(lastEvent'.notifs) = Len(activityHandlers)
               /\ \A i \in 1..Len(activityHandlers) :
                     lastEvent'.notifs[i] =
                        <<activityHandlers[i], lastEvent'.id,
                          heap'[channelActivity'[lastEvent'.id]]>>
               /\ \E k \in CheckSlots :
                     /\ checks[k].chan = lastEvent'.id /\ checks'[k].chan = None
                     /\ heap'[channelActivity'[lastEvent'.id]] =
                           NewActivity(heap[checks[k].obj], lastEvent'.msgs)
       /\ lastEvent'.op = "offActivity"
            => /\ lastEvent'.id \notin Range(activityHandlers')
               /\ activityHandlers' =
                     SelectSeq(activityHandlers, LAMBDA h : h # lastEvent'.id)
               /\ UNCHANGED <<heap, channelActivity, checks>>
      ]_vars

\* a notification of three registrations: the handler that throws, then
\* "h1" twice, all called, and the record holds the new message
C25_Witness ==
    /\ lastEvent.op = "check"
    /\ activityHandlers = <<"h2", "h1", "h1">>
    /\ Throws(activityHandlers[1])
    /\ Len(lastEvent.notifs) = 3
    /\ lastEvent.notifs[3][1] = "h1"
    /\ Activity("a").unreadCount = lastEvent.before.unreadCount + 1

\* everything but the step's event
stateVars ==
    <<registry, memLatest, lastAccess, live, activeChannelId, heap, channelActivity,
      activityHandlers, backgroundPoller, intervals, warmups, pollIndex, isPolling,
      config, now, calls, cycles, checks>>

\* C26: setActive without a channel id issues no transport request and
\* starts no call, and onActivity with a value that is not a function
\* registers nothing; neither changes the pointer, a record, the observer
\* list or anything else of the manager's state.
C26_MisuseChangesNothing ==
    [][/\ (lastEvent'.op = "setActive" /\ lastEvent'.id = None)
            => lastEvent'.req = <<>> /\ UNCHANGED stateVars
       /\ (lastEvent'.op = "onActivity" /\ lastEvent'.id \notin Handlers)
            => UNCHANGED stateVars
      ]_vars

\* onActivity was called with a value that is not a function while two
\* handlers are registered and "a", which has a record, is the active
\* channel
C26_Witness ==
    /\ lastEvent.op = "onActivity" /\ lastEvent.id = NotAFunction
    /\ activityHandlers = <<"h1", "h2">>
    /\ activeChannelId = "a" /\ "a" \in live
    /\ HasActivity("a") /\ Activity("a").lastMessageTime > 0

\* C27: in every state in which a channel is the active channel,
\* getUnreadCount of that channel returns 0, also when the channel
\* accumulated unread messages as a background channel before it became
\* active.
C27_ActiveUnreadZero ==
    activeChannelId # None => GetUnreadCount(activeChannelId) = 0

\* history fetches requested and not settled
FetchesInFlight == Busy(checks)

\* C28: at most one history fetch requested by the scheduler, by its poll
\* cycles and forcePoll together, is in flight at any time.
C28_OneFetchInFlight == Cardinality(FetchesInFlight) <= 1

\* the checks in flight that poll cycle j started
ChecksOf(chk, j) == {k \in Busy(chk) : chk[k].owner = j}

\* C29: a poll cycle has one fetch in flight while it awaits a check and
\* none otherwise; it starts the check of a channel only from its first step
\* or after a stagger delay, when the check it started before has settled,
\* and the positions of the channels it checks increase through the batch,
\* which stays as selected.
C29_ChecksInBatchOrder ==
    /\ [](\A j \in CycleSlots :
            Cardinality(ChecksOf(checks, j)) = IF cycles[j].pc = "fetch" THEN 1 ELSE 0)
    /\ [][\A j \in CycleSlots :
            /\ (cycles'[j].pc = "fetch" /\ cycles'[j] # cycles[j])
                 => /\ cycles[j].pc \in {"idle", "stagger"}
                    /\ ChecksOf(checks, j) = {}
                    /\ \E k \in CheckSlots :
                          /\ ChecksOf(checks', j) = {k}
                          /\ checks'[k].chan = cycles'[j].batch[cycles'[j].i]
                    /\ cycles[j].pc = "stagger"
                          => /\ cycles'[j].batch = cycles[j].batch
                             /\ cycles'[j].i > cycles[j].i
            /\ (cycles[j].pc = "fetch" /\ cycles'[j] # cycles[j])
                 => /\ lastEvent'.op = "check"
                    /\ lastEvent'.id = cycles[j].batch[cycles[j].i]
                    /\ ChecksOf(checks', j) = {}
                    /\ cycles'[j] \in {IdleCycle, [cycles[j] EXCEPT !.pc = "stagger"]}
         ]_vars

\* after the check of the first channel of a batch of two completed and the
\* stagger delay passed, the cycle has started the check of the second
\* channel, its only fetch in flight
C29_Witness ==
    /\ lastEvent.op = "stagger"
    /\ Len(lastEvent.batch) = 2
    /\ lastEvent.fetch = lastEvent.batch[2]
    /\ seen[lastEvent.batch[1]] = <<>>
    /\ \E j \in CycleSlots :
          /\ cycles[j].pc = "fetch" /\ cycles[j].i = 2
          /\ Cardinality(ChecksOf(checks, j)) = 1
    /\ Cardinality(FetchesInFlight) = 1

\* C30: a poll cycle that finds N > 0 background channels, the cursor at c
\* and the batch size B selects the min(B, N) channels at the positions
\* (c + i) mod N, i = 0 .. min(B, N) - 1, of the background ordering, which
\* are pairwise distinct, and leaves the cursor at (c + min(B, N)) mod N,
\* within 0 .. N - 1; a cycle that finds no background channel requests no
\* fetch and leaves the cursor as it is.
C30_BatchAndCursor ==
    [][(lastEvent'.op = "poll" /\ ~lastEvent'.raised)
        => LET bg == BackgroundChannels
               N == Len(bg)
               c == pollIndex
               n == Min(config.POLL_BATCH_SIZE, N)
               batch == lastEvent'.batch
           IN IF N = 0
              THEN /\ batch = <<>> /\ lastEvent'.fetch = None
                   /\ pollIndex' = pollIndex
                   /\ checks' = checks
              ELSE /\ Len(batch) = n
                   /\ \A i \in 0..(n - 1) : batch[i + 1] = bg[((c + i) % N) + 1]
                   /\ \A p, q \in 1..Len(batch) : p # q => batch[p] # batch[q]
                   /\ pollIndex' = (c + n) % N
                   /\ 0 <= pollIndex' /\ pollIndex' < N
      ]_vars

\* a cycle of batch size 2 over three background channels found the cursor
\* at 2: it selected "c" and, wrapping around, "a", and left the cursor at 1
C30_Witness ==
    /\ lastEvent.op = "poll"
    /\ activeChannelId = None
    /\ registry = <<"a", "b", "c">>
    /\ config.POLL_BATCH_SIZE = 2
    /\ lastEvent.batch = <<"c", "a">>
    /\ pollIndex = 1
    /\ cyclesRun = 1

\* C31: a start call that starts the poller leaves every existing record as
\* it is and creates, for every registry channel without a record, the
\* record {lastMessageTime: its persisted last-access time (0 when none),
\* unreadCount: 0, lastChecked: 0}; channels outside the registry get none;
\* a start call while the poller runs changes no record.  So a stop followed
\* by a start keeps the unread counts.
C31_StartInitializesMissing ==
    [][lastEvent'.op = "start"
        => \A c \in Channels :
             IF HasActivity(c)
             THEN /\ channelActivity'[c] # NoObj
                  /\ heap'[channelActivity'[c]] = Activity(c)
             ELSE IF InRegistry(c) /\ ~backgroundPoller
                  THEN /\ channelActivity'[c] # NoObj
                       /\ heap'[channelActivity'[c]] = Rec(lastAccess[c], 0, 0)
                  ELSE channelActivity'[c] = NoObj
      ]_vars

\* a start call that starts the poller: "a" keeps the unread count and the
\* times its check left, and "b", which had no record, has one made from its
\* last-access time
C31_Witness ==
    /\ lastEvent.op = "start"
    /\ backgroundPoller /\ warmups = 1
    /\ Activity("a").unreadCount = 1
    /\ Activity("a").lastChecked = now
    /\ lastAccess["b"] = 1
    /\ Activity("b") = Rec(1, 0, 0)
    /\ seen["b"] = NoFetch
    /\ seen["a"] # NoFetch

\* C32: a poll cycle never requests the fetch of the channel that is the
\* active channel when the fetch is requested, neither in its first step nor
\* after a stagger delay.
C32_NoFetchForActive ==
    (lastEvent.op \in {"poll", "stagger"} /\ lastEvent.fetch # None)
        => lastEvent.fetch # activeChannelId

\* C33: when a setActive(X) call with a channel id returns without raising,
\* either at once because X is already the active pointer or when its
\* subscribe request has resolved, X holds a live full subscription.
C33_ReturnedMeansSubscribed ==
    /\ (lastEvent.op = "subscribed" /\ ~lastEvent.raised) => lastEvent.id \in live
    /\ (lastEvent.op = "setActive" /\ lastEvent.id # None /\ lastEvent.req = <<>>)
          => lastEvent.id \in live

\* C34: no step lowers the lastMessageTime of a record that exists before
\* and after the step.
C34_LastMessageTimeMonotone ==
    [][\A c \in Channels :
         (HasActivity(c) /\ channelActivity'[c] # NoObj)
         => heap'[channelActivity'[c]].lastMessageTime >= Activity(c).lastMessageTime
      ]_vars

\* C35: a remote message is counted and announced at most once: a check that
\* resolves with the page the last completed check of the channel resolved
\* with, whose messages have all been counted or found old, notifies nobody
\* and leaves unreadCount as it was before the step, also when the two
\* checks overlapped and a clearUnread came between them.
C35_CountedAtMostOnce ==
    (lastEvent.op = "check" /\ ~lastEvent.raised /\ lastEvent.repeat)
        => /\ lastEvent.notifs = <<>>
           /\ Activity(lastEvent.id).unreadCount = lastEvent.before.unreadCount

\* C36: a check that was in flight when removeChannel or cleanup deleted the
\* record of its channel does not create a record for the channel when its
\* fetch settles, resolved or rejected: if the channel has no record before
\* that step, it has none after it.
C36_RemovedStaysRemoved ==
    [][\A k \in CheckSlots :
         (/\ checks[k].chan # None /\ checks[k].removed
          /\ checks'[k].chan = None /\ lastEvent'.op = "check"
          /\ ~HasActivity(checks[k].chan))
         => channelActivity'[checks[k].chan] = NoObj
      ]_vars

\* C37: a poll cycle begins only while the poller is started: after stop or
\* cleanup has returned and before the next start call, no timer callback
\* begins a cycle.
C37_NoCycleAfterStop ==
    [][lastEvent'.op = "poll" => backgroundPoller]_vars

\* C38: on the first init in a supported browser whose service worker
\* registers and which has no push subscription yet, init calls subscribe,
\* and when the permission is granted and the push manager's subscribe and
\* the relay registration succeed, the manager is enabled and holds a push
\* subscription when init returns true.
C38_InitAutoEnables ==
    (/\ relay.last = RelayEv("init", "true")
     /\ relay.inits = 1
     /\ relay.browser = Willing)
        => /\ relay.subscribes >= 1
           /\ relay.enabled
           /\ relay.pushSubscription

\* C39: every promise execute returns is settled at most once and is
\* eventually settled: a worker's answer settles the pending task of its id
\* and no other, an answer with an id that is not pending changes nothing,
\* and a task pending when its worker raises an error or when terminate is
\* called is rejected.
C39_PromisesSettled ==
    /\ [](\A e \in 1..Len(pool.execs) : pool.execs[e].settles <= 1)
    /\ [][/\ pool'.last.op = "message" =>
               \A e \in 1..Len(pool.execs) :
                  IF pool.execs[e].id = pool'.last.id /\ pool.execs[e].id \in pool.pendingTasks
                  THEN PromiseSettled(pool'.execs[e]) /\ pool'.execs[e].settles = 1
                  ELSE pool'.execs[e].st = pool.execs[e].st
                       /\ pool'.execs[e].settles = pool.execs[e].settles
          /\ pool'.last.op = "terminate" =>
               \A e \in 1..Len(pool.execs) :
                  pool.execs[e].st = "posted" => pool'.execs[e].st = "rejected"
          /\ pool'.last.op = "error" =>
               pool'.execs[pool'.last.exec].st = "rejected"
         ]_vars
    /\ \A e \in 1..MaxExecs :
          (e <= Len(pool.execs) /\ PromisePending(pool.execs[e]))
              ~> (e <= Len(pool.execs) /\ PromiseSettled(pool.execs[e]))

====
